---- MODULE Spec2Model ----
(***************************************************************************)
(* NWN Emitter Editor: the frame loop of main(), its key callback and the  *)
(* manipulation gestures (grab / scale / rotate), the emitter list of      *)
(* EmitterEditor, the Outliner panel, and the particle stores of           *)
(* ParticleRenderer.                                                       *)
(*                                                                         *)
(* Units.  Mouse coordinates are pixels.  Positions and lengths are        *)
(* hundredths of a world unit, rotation angles are degrees, emission-plane *)
(* sizes are tenths of a world unit (the default emitter's 0.1 is 1).  The *)
(* mouse positions explored are multiples of 100 pixels, so that with the  *)
(* default sensitivity 0.01 every product the code computes is an integer. *)
(* Simulated time is in ticks of 1 / TicksPerSecond.                       *)
(***************************************************************************)
EXTENDS Integers, Sequences, FiniteSets, TLC

(***************************************************************************)
(* Bounds of the exploration.                                              *)
(***************************************************************************)
\* input events (key events and mouse clicks) delivered in one behaviour
MaxEvents == 3
\* emitters in a model file that is loaded
MaxFileEmitters == 1
\* ParticleSystemState::maxParticles (500000 in the code) of the store explored
MaxParticles == 3
\* the longest simulated time (animationTime) explored, in ticks
MaxTime == 16
\* ticks of simulated time in a second
TicksPerSecond == 8
\* emitters in a list that is picked from
MaxPickEmitters == 2

MaxKeyframes == 3

MaxLoads == 3

MaxFields == 2

MaxDocumentEmitters == 3

MaxSuffix == 4

MaxStores == 3
MaxToastsAdded == 6
MaxToastsSet == 2
MaxImageSize == 8

(***************************************************************************)
(* Small helpers.                                                          *)
(***************************************************************************)
Abs(x) == IF x < 0 THEN -x ELSE x

Min(a, b) == IF a < b THEN a ELSE b

Max(a, b) == IF a > b THEN a ELSE b

Vec3Add(a, b) == <<a[1] + b[1], a[2] + b[2], a[3] + b[3]>>

Vec3Sub(a, b) == <<a[1] - b[1], a[2] - b[2], a[3] - b[3]>>

Vec3Scale(a, k) == <<a[1] * k, a[2] * k, a[3] * k>>

Dot(a, b) == a[1] * b[1] + a[2] * b[2] + a[3] * b[3]

Clamp(x, lo, hi) == IF x < lo THEN lo ELSE IF x > hi THEN hi ELSE x

\* x * 0.01 (the default sensitivity), exact on the multiples of 100 explored
TimesSensitivity(x) == x \div 100

(***************************************************************************)
(* Input alphabet.                                                         *)
(***************************************************************************)
\* the key events GLFW delivers: the combinations keyCallback handles, one
\* it ignores, and the press and release of the shift key itself
KeyEvents ==
    {[key |-> k, action |-> "PRESS", mods |-> {"ctrl"}] : k \in {"S", "O", "Q", "N"}}
    \cup {[key |-> "S", action |-> "PRESS", mods |-> {"ctrl", "shift"}]}
    \cup {[key |-> k, action |-> "PRESS", mods |-> {"shift"}] :
              k \in {"A", "D", "X", "Y", "Z", "SHIFT"}}
    \cup {[key |-> k, action |-> "PRESS", mods |-> {}] :
              k \in {"X", "G", "S", "R", "ESCAPE", "Y", "Z", "A"}}
    \cup {[key |-> "SHIFT", action |-> "RELEASE", mods |-> {}]}

\* ImGui::GetMousePos() of a frame
MousePositions == {<<0, 0>>, <<100, 0>>, <<0, 100>>}

\* the modal popups of FileDialog
Popups == {"load", "save", "saveAs"}

\* paths a file dialog can return
Paths == {"a.mdl"}

(***************************************************************************)
(* Emitters.                                                               *)
(***************************************************************************)
\* an emitter name "base" or "base_num" (num = 0: no numeric suffix)
Name(base, num) == [base |-> base, num |-> num]

\* the name of no emitter
NoName == Name("", -1)

createDefaultEmitter ==
    [name |-> Name("", 0),
     position |-> <<0, 0, 0>>,
     rotationAngles |-> <<0, 0, 0>>,
     xsize |-> 1,
     ysize |-> 1,
     velocity |-> 100,
     spread |-> 45,
     update |-> "Fountain",
     inherit |-> TRUE,
     xgrid |-> 1,
     ygrid |-> 1]

addEmitter(ems, name) == Append(ems, [createDefaultEmitter EXCEPT !.name = name])

removeEmitter(ems, index) ==
    IF index >= 0 /\ index < Len(ems)
    THEN [i \in 1..(Len(ems) - 1) |-> IF i <= index THEN ems[i] ELSE ems[i + 1]]
    ELSE ems

\* the first suffix in from..999 that no emitter's name uses; 999 when all are used
RECURSIVE FreeSuffix(_, _, _)
FreeSuffix(ems, base, from) ==
    IF from >= 999 \/ ~(\E i \in 1..Len(ems) : ems[i].name = Name(base, from))
    THEN from
    ELSE FreeSuffix(ems, base, from + 1)

duplicateEmitter(ems, index) ==
    IF index < 0 \/ index >= Len(ems)
    THEN ems
    ELSE LET duplicate == ems[index + 1]
             baseName == duplicate.name.base
             startingSuffix == IF duplicate.name.num > 0 THEN duplicate.name.num + 1 ELSE 2
             newName == Name(baseName, FreeSuffix(ems, baseName, startingSuffix))
         IN  Append(ems, [duplicate EXCEPT !.name = newName])

resetToNew == addEmitter(<<>>, Name("default_emitter", 0))

\* the emitter list a model file holds: n emitter nodes with default fields
FileEmitters(n) == [i \in 1..n |-> [createDefaultEmitter EXCEPT !.name = Name("node", i)]]

\* what opening and parsing the chosen file can give: the file does not open,
\* or it holds 0..MaxFileEmitters emitter nodes
FileContents ==
    {[opens |-> FALSE, emitters |-> <<>>]}
    \cup {[opens |-> TRUE, emitters |-> FileEmitters(n)] : n \in 0..MaxFileEmitters}

NoFile == [opens |-> FALSE, emitters |-> <<>>]

loadFromMDL(ems, file) == IF ~file.opens THEN ems ELSE file.emitters

\* the file saveToMDL writes
saveToMDL(ems) == [written |-> TRUE, emitters |-> ems]

(***************************************************************************)
(* State.                                                                  *)
(***************************************************************************)
VARIABLES
    g_pressed,                \* the g_*_pressed hotkey flags that are set
    g_shiftPressed,
    g_viewportHovered,
    g_grabMode, g_grabStartPosition, g_grabStartMouse, g_grabbedEmitter,
    g_scaleMode, g_scaleStartSize, g_scaleStartMouse, g_scaledEmitter,
    g_rotationMode, g_rotationStartRotation, g_rotationStartMouse, g_rotatedEmitter,
    emitters,                 \* EmitterEditor::emitters
    selectedEmitter,
    currentFilePath,
    savedFile,                \* what saveToMDL last wrote
    openPopup,                \* the FileDialog popup that is open, or "none"
    emitterStates,            \* ParticleRenderer::emitterStates
    windowShouldClose,
    outOfRange,               \* an emitter or store was accessed outside its vector
    rendered,                 \* the last frame called renderToTexture
    events,                   \* input events delivered so far
    cancelInput,              \* gestures that got a confirm/cancel input since they started
    renderLog,                \* the calls of the last ParticleRenderer::render, in order
    pressedInGesture,         \* the set flags whose key press came while a gesture was active
    startedOn,                \* for each active gesture, the name of the emitter it started on
    simEmitter,               \* the emitter of the particle store below
    simState,                 \* one ParticleSystemState, with its particles
    simOut,                   \* what the last frame of that store produced
    probe,                    \* the arguments and the result of the function applied last
    textureCache,             \* ParticleRenderer::textureCache: name -> handle, 0 for none
    textures,                 \* ParticleRenderer::textures
    textureDirectory,
    diskLoads,                \* how often the image files of each name were read
    lastTexture,              \* the last getTexture call, what it returned,
                              \* whether it found the name in the cache, and the
                              \* directories of the request and of the answer
    loadedFrom,               \* the texture directory at the load of each cached name
    toasts,                   \* ToastManager::toasts, the oldest first
    maxToasts,                \* ToastManager::maxToasts
    toastsAdded,              \* how many times addToast was called
    toastCall                 \* the last addToast call: the queue before it, the
                              \* limit, what was evicted and how the call ended

\* the state of main and of the ParticleRenderer it drives
editorVars ==
    <<g_pressed, g_shiftPressed, g_viewportHovered,
      g_grabMode, g_grabStartPosition, g_grabStartMouse, g_grabbedEmitter,
      g_scaleMode, g_scaleStartSize, g_scaleStartMouse, g_scaledEmitter,
      g_rotationMode, g_rotationStartRotation, g_rotationStartMouse, g_rotatedEmitter,
      emitters, selectedEmitter, currentFilePath, savedFile, openPopup,
      emitterStates, windowShouldClose, outOfRange, rendered, events, cancelInput,
      renderLog, pressedInGesture, startedOn>>

\* one particle store on its own
simVars == <<simEmitter, simState, simOut>>

\* the textures of the ParticleRenderer
textureVars ==
    <<textureCache, textures, textureDirectory, diskLoads, lastTexture, loadedFrom>>

\* the notifications of the ToastManager
toastVars == <<toasts, maxToasts, toastsAdded, toastCall>>

vars == <<editorVars, simVars, probe, textureVars, toastVars>>

Flags ==
    {"g_ctrlS_pressed", "g_ctrlO_pressed", "g_ctrlQ_pressed", "g_ctrlN_pressed",
     "g_ctrlShiftS_pressed", "g_shiftA_pressed", "g_shiftD_pressed",
     "g_x_pressed", "g_y_pressed", "g_z_pressed",
     "g_g_pressed", "g_s_pressed", "g_r_pressed", "g_esc_pressed"}

\* the flags every active gesture clears (main.cpp 408-414, 448-454, 511-517)
CommandFlags ==
    {"g_ctrlS_pressed", "g_ctrlO_pressed", "g_ctrlQ_pressed", "g_ctrlN_pressed",
     "g_ctrlShiftS_pressed", "g_shiftA_pressed", "g_shiftD_pressed"}

GrabModes == {"None", "Free", "X_Axis", "Y_Axis", "Z_Axis", "YZ_Plane", "XZ_Plane", "XY_Plane"}

ScaleModes == {"None", "Uniform"}

RotationModes == {"None", "Free", "X_Axis", "Y_Axis", "Z_Axis"}

\* the flag a key event sets, "" when keyCallback ignores the event
keyCallbackFlag(ev) ==
    IF ev.action # "PRESS" THEN ""
    ELSE IF "ctrl" \in ev.mods
    THEN CASE ev.key = "S" -> IF "shift" \in ev.mods THEN "g_ctrlShiftS_pressed"
                                                     ELSE "g_ctrlS_pressed"
           [] ev.key = "O" -> "g_ctrlO_pressed"
           [] ev.key = "Q" -> "g_ctrlQ_pressed"
           [] ev.key = "N" -> "g_ctrlN_pressed"
           [] OTHER -> ""
    ELSE IF "shift" \in ev.mods
    THEN CASE ev.key = "A" -> "g_shiftA_pressed"
           [] ev.key = "D" -> "g_shiftD_pressed"
           [] ev.key = "X" -> "g_x_pressed"
           [] ev.key = "Y" -> "g_y_pressed"
           [] ev.key = "Z" -> "g_z_pressed"
           [] OTHER -> ""
    ELSE CASE ev.key = "X" -> "g_x_pressed"
           [] ev.key = "G" -> "g_g_pressed"
           [] ev.key = "S" -> "g_s_pressed"
           [] ev.key = "R" -> "g_r_pressed"
           [] ev.key = "ESCAPE" -> "g_esc_pressed"
           [] ev.key = "Y" -> "g_y_pressed"
           [] ev.key = "Z" -> "g_z_pressed"
           [] OTHER -> ""

\* the gestures that are active
ActiveGestures ==
    (IF g_grabMode # "None" THEN {"grab"} ELSE {})
    \cup (IF g_scaleMode # "None" THEN {"scale"} ELSE {})
    \cup (IF g_rotationMode # "None" THEN {"rotate"} ELSE {})

InitEditor ==
    /\ g_pressed = {}
    /\ g_shiftPressed = FALSE
    /\ g_viewportHovered = FALSE
    /\ g_grabMode = "None"
    /\ g_grabStartPosition = <<0, 0, 0>>
    /\ g_grabStartMouse = <<0, 0>>
    /\ g_grabbedEmitter = -1
    /\ g_scaleMode = "None"
    /\ g_scaleStartSize = <<0, 0>>
    /\ g_scaleStartMouse = <<0, 0>>
    /\ g_scaledEmitter = -1
    /\ g_rotationMode = "None"
    /\ g_rotationStartRotation = <<0, 0, 0>>
    /\ g_rotationStartMouse = <<0, 0>>
    /\ g_rotatedEmitter = -1
    /\ emitters = addEmitter(<<>>, Name("default_emitter", 0))
    /\ selectedEmitter = 0
    /\ currentFilePath = ""
    /\ savedFile = [written |-> FALSE, emitters |-> <<>>]
    /\ openPopup = "none"
    /\ emitterStates = <<>>
    /\ windowShouldClose = FALSE
    /\ outOfRange = FALSE
    /\ rendered = FALSE
    /\ events = 0
    /\ cancelInput = {}
    /\ renderLog = <<>>
    /\ pressedInGesture = {}
    /\ startedOn = [g \in {"grab", "scale", "rotate"} |-> NoName]

\* ParticleSystemState(); rng stands for the state of the std::mt19937 and
\* spawned counts the particles spawnParticle has initialised (not in the code)
ParticleSystemState ==
    [particles |-> <<>>, lastSpawnTime |-> 0, maxParticles |-> MaxParticles,
     rng |-> 0, animationTime |-> 0, spawned |-> 0]

\* the fields of an EmitterNode the simulation reads, in ticks and integer units
SimEmitter(update, birthrate, lifeExp) ==
    [update |-> update, birthrate |-> birthrate, lifeExp |-> lifeExp,
     velocity |-> 10, grav |-> 1, drag |-> 0, particleRot |-> 1,
     sizeStart |-> 6, sizeEnd |-> 0, alphaStart |-> 12, alphaEnd |-> 0]

NoOutput == [vertexData |-> <<>>, deltaTime |-> 0]

NoProbe == [function |-> "none"]

\* texture names: none, two names looked up in the texture directory, a path
TextureNames == {"", "fx_smoke", "fx_fire", "textures/spark.tga"}

TextureDirectories == {"", "textures"}

\* loadTexture: a name with a slash or a backslash is a path and is opened as it
\* is; any other name is looked up in the texture directory
isFullPath(name) == name \in {"textures/spark.tga"}

NoTexture ==
    [name |-> "", handle |-> 0, cached |-> FALSE, requestedIn |-> "", resolvedIn |-> ""]

\* no addToast call yet
NoToastCall == [outcome |-> "none", before |-> <<>>, maxToasts |-> 0, after |-> <<>>]

\* ToastManager(): no toasts, maxToasts = 5
InitToasts ==
    /\ toasts = <<>>
    /\ maxToasts = 5
    /\ toastsAdded = 0
    /\ toastCall = NoToastCall

InitTextures ==
    /\ textureCache = <<>>
    /\ textures = <<>>
    /\ textureDirectory = ""
    /\ diskLoads = [name \in TextureNames |-> 0]
    /\ lastTexture = NoTexture
    /\ loadedFrom = <<>>

Init ==
    /\ InitEditor
    /\ simEmitter = SimEmitter("Fountain", 2, (3 * TicksPerSecond) \div 2)
    /\ simState = ParticleSystemState
    /\ simOut = NoOutput
    /\ probe = NoProbe
    /\ InitTextures
    /\ InitToasts

(***************************************************************************)
(* keyCallback: GLFW delivers one key event (during glfwPollEvents).       *)
(***************************************************************************)
KeyCallback(ev) ==
    /\ ~windowShouldClose
    /\ events < MaxEvents
    /\ events' = events + 1
    /\ g_shiftPressed' = ("shift" \in ev.mods)
    /\ g_pressed' = IF keyCallbackFlag(ev) = "" THEN g_pressed
                    ELSE g_pressed \cup {keyCallbackFlag(ev)}
    /\ cancelInput' = IF keyCallbackFlag(ev) = "g_esc_pressed"
                      THEN cancelInput \cup ActiveGestures
                      ELSE cancelInput
    /\ pressedInGesture' = IF keyCallbackFlag(ev) = "" THEN pressedInGesture
                           ELSE IF ActiveGestures # {}
                           THEN pressedInGesture \cup {keyCallbackFlag(ev)}
                           ELSE pressedInGesture \ {keyCallbackFlag(ev)}
    /\ UNCHANGED <<g_viewportHovered,
                   g_grabMode, g_grabStartPosition, g_grabStartMouse, g_grabbedEmitter,
                   g_scaleMode, g_scaleStartSize, g_scaleStartMouse, g_scaledEmitter,
                   g_rotationMode, g_rotationStartRotation, g_rotationStartMouse,
                   g_rotatedEmitter, emitters, selectedEmitter, currentFilePath,
                   savedFile, openPopup, emitterStates, windowShouldClose,
                   outOfRange, rendered, renderLog, startedOn>>
    /\ UNCHANGED <<simVars, probe, textureVars, toastVars>>

(***************************************************************************)
(* One iteration of the frame loop of main().  The phases of the loop body *)
(* are functions of a record of the state, applied in the order of the     *)
(* code; Frame commits the record the last phase returns.                  *)
(***************************************************************************)
St ==
    [g_pressed |-> g_pressed, g_shiftPressed |-> g_shiftPressed,
     g_viewportHovered |-> g_viewportHovered,
     g_grabMode |-> g_grabMode, g_grabStartPosition |-> g_grabStartPosition,
     g_grabStartMouse |-> g_grabStartMouse, g_grabbedEmitter |-> g_grabbedEmitter,
     g_scaleMode |-> g_scaleMode, g_scaleStartSize |-> g_scaleStartSize,
     g_scaleStartMouse |-> g_scaleStartMouse, g_scaledEmitter |-> g_scaledEmitter,
     g_rotationMode |-> g_rotationMode,
     g_rotationStartRotation |-> g_rotationStartRotation,
     g_rotationStartMouse |-> g_rotationStartMouse, g_rotatedEmitter |-> g_rotatedEmitter,
     emitters |-> emitters, selectedEmitter |-> selectedEmitter,
     currentFilePath |-> currentFilePath, savedFile |-> savedFile,
     openPopup |-> openPopup, emitterStates |-> emitterStates,
     windowShouldClose |-> windowShouldClose,
     outOfRange |-> outOfRange, rendered |-> rendered, renderLog |-> renderLog,
     \* locals of the loop body
     openLoadDialog |-> FALSE, openSaveDialog |-> FALSE, openSaveAsDialog |-> FALSE]

Clear(s, flags) == [s EXCEPT !.g_pressed = @ \ flags]

\* a check of the lower bound alone
InRangeLowerOnly(s, index) == index >= 0

\* index >= 0 && index < static_cast<int>(emitters.size())
InRange(s, index) == index >= 0 /\ index < Len(s.emitters)

NoGesture(s) ==
    s.g_grabMode = "None" /\ s.g_scaleMode = "None" /\ s.g_rotationMode = "None"

\* emitters[index] is evaluated: outside the vector that is undefined
\* behaviour, which outOfRange records
At(s, index) ==
    IF index >= 0 /\ index < Len(s.emitters) THEN s ELSE [s EXCEPT !.outOfRange = TRUE]

\* the value emitters[index] reads
Emitter(s, index) ==
    IF index >= 0 /\ index < Len(s.emitters) THEN s.emitters[index + 1]
    ELSE createDefaultEmitter

\* emitterStates[index] is evaluated
StoreAt(s, index) ==
    IF index >= 0 /\ index < Len(s.emitterStates) THEN s
    ELSE [s EXCEPT !.outOfRange = TRUE]

\* emitters[index].field = value
SetField(s, index, field, value) ==
    IF index >= 0 /\ index < Len(s.emitters)
    THEN [s EXCEPT !.emitters[index + 1] =
             CASE field = "position" -> [@ EXCEPT !.position = value]
               [] field = "rotationAngles" -> [@ EXCEPT !.rotationAngles = value]
               [] field = "size" -> [@ EXCEPT !.xsize = value[1], !.ysize = value[2]]]
    ELSE At(s, index)

(* main.cpp 353-432 *)
GrabCancelKey(s) ==
    IF "g_esc_pressed" \in s.g_pressed
    THEN LET r == IF InRange(s, s.g_grabbedEmitter)
                  THEN SetField(s, s.g_grabbedEmitter, "position", s.g_grabStartPosition)
                  ELSE s
         IN  Clear([r EXCEPT !.g_grabMode = "None", !.g_grabbedEmitter = -1],
                   {"g_esc_pressed"})
    ELSE s

\* an axis key that ignores the modifier
GrabAxisKeyNoPlane(s, flag, axis, plane) ==
    IF flag \in s.g_pressed
    THEN Clear([s EXCEPT !.g_grabMode = axis], {flag})
    ELSE s

GrabAxisKey(s, flag, axis, plane) ==
    IF flag \in s.g_pressed
    THEN Clear([s EXCEPT !.g_grabMode = IF s.g_shiftPressed THEN plane ELSE axis], {flag})
    ELSE s

\* a grab that starts whether or not the viewport is hovered
GrabStartAnywhere(s, mouse) ==
    IF "g_g_pressed" \in s.g_pressed
    THEN Clear(IF InRange(s, s.selectedEmitter)
               THEN [At(s, s.selectedEmitter) EXCEPT
                              !.g_grabMode = "Free",
                              !.g_grabbedEmitter = s.selectedEmitter,
                              !.g_grabStartPosition =
                                  Emitter(s, s.selectedEmitter).position,
                              !.g_grabStartMouse = mouse]
               ELSE s,
               {"g_g_pressed"})
    ELSE s

GrabStart(s, mouse) ==
    IF "g_g_pressed" \in s.g_pressed
    THEN Clear(IF s.g_viewportHovered /\ InRange(s, s.selectedEmitter)
               THEN [At(s, s.selectedEmitter) EXCEPT
                              !.g_grabMode = "Free",
                              !.g_grabbedEmitter = s.selectedEmitter,
                              !.g_grabStartPosition =
                                  Emitter(s, s.selectedEmitter).position,
                              !.g_grabStartMouse = mouse]
               ELSE s,
               {"g_g_pressed"})
    ELSE s

GrabKeys(s, mouse) ==
    IF s.g_grabMode # "None"
    THEN Clear(GrabAxisKey(GrabAxisKey(GrabAxisKey(GrabCancelKey(s),
                   "g_x_pressed", "X_Axis", "YZ_Plane"),
                   "g_y_pressed", "Y_Axis", "XZ_Plane"),
                   "g_z_pressed", "Z_Axis", "XY_Plane"),
               CommandFlags)
    ELSE GrabStart(s, mouse)

(* main.cpp 434-479 *)
ScaleCancelKey(s) ==
    IF "g_esc_pressed" \in s.g_pressed
    THEN LET r == IF InRange(s, s.g_scaledEmitter)
                  THEN SetField(s, s.g_scaledEmitter, "size", s.g_scaleStartSize)
                  ELSE s
         IN  Clear([r EXCEPT !.g_scaleMode = "None", !.g_scaledEmitter = -1],
                   {"g_esc_pressed"})
    ELSE s

ScaleStart(s, mouse) ==
    IF "g_s_pressed" \in s.g_pressed
    THEN Clear(IF s.g_viewportHovered /\ InRange(s, s.selectedEmitter)
               THEN [At(s, s.selectedEmitter) EXCEPT
                              !.g_scaleMode = "Uniform",
                              !.g_scaledEmitter = s.selectedEmitter,
                              !.g_scaleStartSize =
                                  <<Emitter(s, s.selectedEmitter).xsize,
                                    Emitter(s, s.selectedEmitter).ysize>>,
                              !.g_scaleStartMouse = mouse]
               ELSE s,
               {"g_s_pressed"})
    ELSE s

ScaleKeys(s, mouse) ==
    IF s.g_scaleMode # "None"
    THEN Clear(ScaleCancelKey(s),
               CommandFlags \cup {"g_x_pressed", "g_y_pressed", "g_z_pressed",
                                  "g_g_pressed", "g_r_pressed"})
    ELSE ScaleStart(s, mouse)

(* main.cpp 481-537 *)
RotationCancelKey(s) ==
    IF "g_esc_pressed" \in s.g_pressed
    THEN LET r == IF InRange(s, s.g_rotatedEmitter)
                  THEN SetField(s, s.g_rotatedEmitter, "rotationAngles",
                                s.g_rotationStartRotation)
                  ELSE s
         IN  Clear([r EXCEPT !.g_rotationMode = "None", !.g_rotatedEmitter = -1],
                   {"g_esc_pressed"})
    ELSE s

RotationAxisKey(s, flag, axis) ==
    IF flag \in s.g_pressed
    THEN Clear([s EXCEPT !.g_rotationMode = axis], {flag})
    ELSE s

RotationStart(s, mouse) ==
    IF "g_r_pressed" \in s.g_pressed
    THEN Clear(IF s.g_viewportHovered /\ InRange(s, s.selectedEmitter)
               THEN [At(s, s.selectedEmitter) EXCEPT
                              !.g_rotationMode = "Free",
                              !.g_rotatedEmitter = s.selectedEmitter,
                              !.g_rotationStartRotation =
                                  Emitter(s, s.selectedEmitter).rotationAngles,
                              !.g_rotationStartMouse = mouse]
               ELSE s,
               {"g_r_pressed"})
    ELSE s

RotationKeys(s, mouse) ==
    IF s.g_rotationMode # "None"
    THEN Clear(RotationAxisKey(RotationAxisKey(RotationAxisKey(RotationCancelKey(s),
                   "g_x_pressed", "X_Axis"),
                   "g_y_pressed", "Y_Axis"),
                   "g_z_pressed", "Z_Axis"),
               CommandFlags \cup {"g_g_pressed", "g_s_pressed"})
    ELSE RotationStart(s, mouse)

\* the three gesture blocks, in the order of the loop body
GestureKeys(s, mouse) == RotationKeys(ScaleKeys(GrabKeys(s, mouse), mouse), mouse)

(* main.cpp 539-617: the command hotkeys *)
QuickSave(s) ==
    IF s.currentFilePath # ""
    THEN [s EXCEPT !.savedFile = saveToMDL(s.emitters)]
    ELSE [s EXCEPT !.openSaveDialog = TRUE]

NewDocument(s) ==
    [s EXCEPT !.emitters = resetToNew, !.selectedEmitter = 0, !.currentFilePath = ""]

AddCommand(s) ==
    LET added == addEmitter(s.emitters, Name("emitter", Len(s.emitters) + 1))
    IN  [s EXCEPT !.emitters = added, !.selectedEmitter = Len(added) - 1]

DuplicateCommand(s) ==
    IF InRange(s, s.selectedEmitter)
    THEN LET dup == duplicateEmitter(s.emitters, s.selectedEmitter)
         IN  [s EXCEPT !.emitters = dup, !.selectedEmitter = Len(dup) - 1]
    ELSE s

DeleteCommand(s) ==
    IF InRange(s, s.selectedEmitter)
    THEN LET rest == removeEmitter(s.emitters, s.selectedEmitter)
             sel == Min(s.selectedEmitter, Len(rest) - 1)
         IN  [s EXCEPT !.emitters = rest,
                       !.selectedEmitter = IF sel < 0 /\ Len(rest) > 0 THEN 0 ELSE sel]
    ELSE s

\* if (no gesture && flag) { body; flag = false; }
Hotkey(s, flag, body) ==
    IF NoGesture(s) /\ flag \in s.g_pressed THEN Clear(body, {flag}) ELSE s

HotkeyCommands(s) ==
    LET s1 == Hotkey(s, "g_ctrlS_pressed", QuickSave(s))
        s2 == Hotkey(s1, "g_ctrlShiftS_pressed", [s1 EXCEPT !.openSaveAsDialog = TRUE])
        s3 == Hotkey(s2, "g_ctrlO_pressed", [s2 EXCEPT !.openLoadDialog = TRUE])
        s4 == Hotkey(s3, "g_ctrlQ_pressed", [s3 EXCEPT !.windowShouldClose = TRUE])
        s5 == Hotkey(s4, "g_ctrlN_pressed", NewDocument(s4))
        s6 == Hotkey(s5, "g_shiftA_pressed",
                     IF s5.g_viewportHovered THEN AddCommand(s5) ELSE s5)
        s7 == Hotkey(s6, "g_shiftD_pressed",
                     IF s6.g_viewportHovered THEN DuplicateCommand(s6) ELSE s6)
    IN  Hotkey(s7, "g_x_pressed", IF s7.g_viewportHovered THEN DeleteCommand(s7) ELSE s7)

(* main.cpp 619-693: the item of the menu bar that is clicked, if any *)
MenuItems ==
    {"menuNew", "menuLoad", "menuSave", "menuSaveAs", "menuExit",
     "menuAdd", "menuDuplicate", "menuDelete"}

MenuBar(s, click) ==
    CASE click = "menuNew" -> NewDocument(s)
      [] click = "menuLoad" -> [s EXCEPT !.openLoadDialog = TRUE]
      [] click = "menuSave" -> QuickSave(s)
      [] click = "menuSaveAs" -> [s EXCEPT !.openSaveAsDialog = TRUE]
      [] click = "menuExit" -> [s EXCEPT !.windowShouldClose = TRUE]
      [] click = "menuAdd" -> AddCommand(s)
      [] click = "menuDuplicate" -> DuplicateCommand(s)
      [] click = "menuDelete" -> DeleteCommand(s)
      [] OTHER -> s

(* main.cpp 710-728: ImGui::OpenPopup; a popup opened later replaces the one open *)
OpenPopups(s) ==
    [s EXCEPT !.openPopup = IF s.openSaveAsDialog THEN "saveAs"
                            ELSE IF s.openSaveDialog THEN "save"
                            ELSE IF s.openLoadDialog THEN "load"
                            ELSE @,
              !.openLoadDialog = FALSE, !.openSaveDialog = FALSE,
              !.openSaveAsDialog = FALSE]

(* main.cpp 739-767 with FileDialog::renderLoadDialog / renderSaveDialog /
   renderSaveAsDialog: the popup shown at the beginning of the frame gets the click *)
FileDialogs(s, click, shown, path, file) ==
    IF s.openPopup = "none" \/ s.openPopup # shown THEN s
    ELSE CASE click = "dialogCancel" -> [s EXCEPT !.openPopup = "none"]
           [] click = "dialogOk" /\ shown = "load" ->
                  [s EXCEPT !.emitters = loadFromMDL(s.emitters, file),
                            !.selectedEmitter = 0,
                            !.currentFilePath = path,
                            !.openPopup = "none"]
           [] click = "dialogOk" /\ shown \in {"save", "saveAs"} ->
                  [s EXCEPT !.savedFile = saveToMDL(s.emitters),
                            !.currentFilePath = path,
                            !.openPopup = "none"]
           [] OTHER -> s

(* part_000 54-92: PropertyEditor::renderOutliner *)
renderOutliner(s, click, index) ==
    CASE click = "outlinerAdd" -> AddCommand(s)
      [] click = "outlinerRemove" -> DeleteCommand(s)
      [] click = "outlinerSelect" /\ index < Len(s.emitters) ->
             [s EXCEPT !.selectedEmitter = index]
      [] OTHER -> s

(* part_000 33-52: PropertyEditor::render draws the Outliner, then the
   properties of the selected emitter *)
PropertyEditorRender(s, click, index) ==
    LET o == renderOutliner(s, click, index)
    IN  IF InRange(o, o.selectedEmitter) THEN At(o, o.selectedEmitter) ELSE o

(***************************************************************************)
(* Transform-constraint math of ParticleRenderer.  A camera is given by    *)
(* the sines and cosines of its yaw and pitch, in hundredths; positions    *)
(* and movements are in hundredths of a world unit.                        *)
(***************************************************************************)
\* Camera::reset: yaw 180, pitch 0 (the camera looks along +Y with Z up)
ResetCamera == [sinYaw |-> 0, cosYaw |-> -100, sinPitch |-> 0, cosPitch |-> 100]

\* the orientations explored: yaw and pitch with sines and cosines 0, 0.6, 0.8, 1
Cameras ==
    {[sinYaw |-> yaw[1], cosYaw |-> yaw[2], sinPitch |-> pitch[1], cosPitch |-> pitch[2]] :
        yaw \in {<<0, -100>>, <<60, 80>>, <<-80, 60>>, <<100, 0>>},
        pitch \in {<<0, 100>>, <<60, 80>>, <<-60, 80>>}}

\* the first column of the inverse of lookAt(position, target, up): the
\* camera sits at target + distance * (cosP sinY, cosP cosY, sinP), up is +Z
cameraRight(camera) == <<-camera.cosYaw, camera.sinYaw, 0>>

\* the second column of the inverse view matrix
cameraUp(camera) ==
    <<(-(camera.sinYaw * camera.sinPitch)) \div 100,
      (-(camera.cosYaw * camera.sinPitch)) \div 100,
      camera.cosPitch>>

\* cameraRight * dx * sensitivity + cameraUp * (-dy * sensitivity)
CameraMovement(camera, dx, dy) ==
    Vec3Add(Vec3Scale(cameraRight(camera), TimesSensitivity(dx)),
            Vec3Scale(cameraUp(camera), TimesSensitivity(-dy)))

\* a single-axis case that returns the camera-space movement as it is
AxisMovementUnprojected(camera, dx, dy, worldAxis) == CameraMovement(camera, dx, dy)

AxisMovement(camera, dx, dy, worldAxis) ==
    LET rightDot == Dot(cameraRight(camera), worldAxis)
        upDot == Dot(cameraUp(camera), worldAxis)
        along == IF Abs(rightDot) > Abs(upDot) THEN dx * rightDot ELSE (-dy) * upDot
    IN  Vec3Scale(worldAxis, TimesSensitivity(along))

mouseToCameraRelativeMovement(camera, dx, dy, grabMode) ==
    CASE grabMode = "Free" -> CameraMovement(camera, dx, dy)
      [] grabMode = "X_Axis" -> AxisMovement(camera, dx, dy, <<1, 0, 0>>)
      [] grabMode = "Y_Axis" -> AxisMovement(camera, dx, dy, <<0, 1, 0>>)
      [] grabMode = "Z_Axis" -> AxisMovement(camera, dx, dy, <<0, 0, 1>>)
      [] grabMode = "YZ_Plane" ->
             <<0, CameraMovement(camera, dx, dy)[2], CameraMovement(camera, dx, dy)[3]>>
      [] grabMode = "XZ_Plane" ->
             <<CameraMovement(camera, dx, dy)[1], 0, CameraMovement(camera, dx, dy)[3]>>
      [] grabMode = "XY_Plane" ->
             <<CameraMovement(camera, dx, dy)[1], CameraMovement(camera, dx, dy)[2], 0>>
      [] OTHER -> <<0, 0, 0>>

\* the clamp bounds 0.0f and 500.0f, in tenths
ScaleMin == 0

ScaleMax == 5000

\* a scaling that clamps the two axes together: both to the bound one of them passes
mouseToScaleJointClamp(dx, dy, startSize, scaleMode) ==
    LET x == (startSize[1] * (100 + (-dy))) \div 100
        y == (startSize[2] * (100 + (-dy))) \div 100
    IN  IF scaleMode # "Uniform" THEN startSize
        ELSE IF x > ScaleMax \/ y > ScaleMax THEN <<ScaleMax, ScaleMax>>
        ELSE IF x < ScaleMin \/ y < ScaleMin THEN <<ScaleMin, ScaleMin>>
        ELSE <<x, y>>

\* scaleFactor is 1.0f + (-mouseDeltaY * sensitivity), in hundredths, for the
\* default sensitivity 0.01
mouseToScale(dx, dy, startSize, scaleMode) ==
    IF scaleMode = "Uniform"
    THEN LET scaleFactor == 100 + (-dy)
         IN  <<Clamp((startSize[1] * scaleFactor) \div 100, ScaleMin, ScaleMax),
               Clamp((startSize[2] * scaleFactor) \div 100, ScaleMin, ScaleMax)>>
    ELSE startSize

mouseToRotation(dx, dy, rotationMode) ==
    CASE rotationMode = "Free" ->
             <<TimesSensitivity(-dy) * 180, 0, TimesSensitivity(dx) * 180>>
      [] rotationMode = "X_Axis" -> <<TimesSensitivity(-dy) * 180, 0, 0>>
      [] rotationMode = "Y_Axis" -> <<0, TimesSensitivity(dx) * 180, 0>>
      [] rotationMode = "Z_Axis" -> <<0, 0, TimesSensitivity(dx) * 180>>
      [] OTHER -> <<0, 0, 0>>

(***************************************************************************)
(* ParticleRenderer::render: the stores are resized to the emitter list,   *)
(* then every store is advanced.  A store is kept as whether it has been   *)
(* advanced since it was created.                                          *)
(***************************************************************************)
FreshStore == [advanced |-> FALSE]

\* a resize that appends stores and never trims
ResizeStoresGrowOnly(states, n) ==
    [i \in 1..(IF Len(states) > n THEN Len(states) ELSE n) |->
        IF i <= Len(states) THEN states[i] ELSE FreshStore]

ResizeStores(states, n) ==
    [i \in 1..n |-> IF i <= Len(states) THEN states[i] ELSE FreshStore]

AdvanceStore(emitter, state) == [state EXCEPT !.advanced = TRUE]

\* the calls of the loop over the emitters, in the order they are made: each
\* pass calls updateParticles and then renderParticles on emitter i
RenderCalls(n) ==
    [k \in 1..(2 * n) |-> IF k % 2 = 1 THEN <<"updateParticles", (k - 1) \div 2>>
                                       ELSE <<"renderParticles", (k \div 2) - 1>>]

\* the loop over the emitters: updateParticles(emitters[i], emitterStates[i], ...)
UpdateStores(s) ==
    [s EXCEPT !.emitterStates =
                  [i \in 1..Len(@) |-> IF i <= Len(s.emitters)
                                       THEN AdvanceStore(s.emitters[i], @[i])
                                       ELSE @[i]],
              !.renderLog = RenderCalls(Len(s.emitters)),
              !.outOfRange = @ \/ Len(s.emitters) > Len(s.emitterStates)]

render(s) ==
    UpdateStores([s EXCEPT !.emitterStates = ResizeStores(@, Len(s.emitters))])

\* ParticleRenderer::getActiveParticleCount checks the index against the stores
getActiveParticleCount(s, emitterIndex) ==
    IF emitterIndex >= 0 /\ emitterIndex < Len(s.emitterStates)
    THEN StoreAt(s, emitterIndex)
    ELSE s

(* main.cpp 835-877: the indicator of an active gesture is drawn at its target *)
ModeIndicators(s) ==
    LET g == IF s.g_grabMode # "None" /\ InRange(s, s.g_grabbedEmitter)
             THEN At(s, s.g_grabbedEmitter) ELSE s
        c == IF g.g_scaleMode # "None" /\ InRange(g, g.g_scaledEmitter)
             THEN At(g, g.g_scaledEmitter) ELSE g
    IN  IF c.g_rotationMode # "None" /\ InRange(c, c.g_rotatedEmitter)
        THEN At(c, c.g_rotatedEmitter) ELSE c

(* main.cpp 1059-1063: the particle counter of the selected emitter *)
ParticleCounter(s) ==
    IF InRange(s, s.selectedEmitter) THEN getActiveParticleCount(s, s.selectedEmitter)
    ELSE s

(* main.cpp 893-1024: the gesture follows the mouse; clicks confirm, cancel or pick *)
\* a grab that adds each frame's movement to the emitter's current position
GrabViewportAccumulating(s, mouse, click) ==
    LET delta == mouseToCameraRelativeMovement(ResetCamera,
                                               mouse[1] - s.g_grabStartMouse[1],
                                               mouse[2] - s.g_grabStartMouse[2],
                                               s.g_grabMode)
        moved == IF s.g_viewportHovered /\ InRange(s, s.g_grabbedEmitter)
                 THEN SetField(s, s.g_grabbedEmitter, "position",
                               Vec3Add(Emitter(s, s.g_grabbedEmitter).position, delta))
                 ELSE s
    IN  CASE click = "viewportLeft" ->
                 [moved EXCEPT !.g_grabMode = "None", !.g_grabbedEmitter = -1]
          [] click = "viewportRight" ->
                 [(IF InRange(moved, moved.g_grabbedEmitter)
                   THEN SetField(moved, moved.g_grabbedEmitter, "position",
                                 moved.g_grabStartPosition)
                   ELSE moved)
                  EXCEPT !.g_grabMode = "None", !.g_grabbedEmitter = -1]
          [] OTHER -> moved

GrabViewport(s, mouse, click) ==
    LET delta == mouseToCameraRelativeMovement(ResetCamera,
                                               mouse[1] - s.g_grabStartMouse[1],
                                               mouse[2] - s.g_grabStartMouse[2],
                                               s.g_grabMode)
        moved == IF s.g_viewportHovered /\ InRange(s, s.g_grabbedEmitter)
                 THEN SetField(s, s.g_grabbedEmitter, "position",
                               Vec3Add(s.g_grabStartPosition, delta))
                 ELSE s
    IN  CASE click = "viewportLeft" ->
                 [moved EXCEPT !.g_grabMode = "None", !.g_grabbedEmitter = -1]
          [] click = "viewportRight" ->
                 [(IF InRange(moved, moved.g_grabbedEmitter)
                   THEN SetField(moved, moved.g_grabbedEmitter, "position",
                                 moved.g_grabStartPosition)
                   ELSE moved)
                  EXCEPT !.g_grabMode = "None", !.g_grabbedEmitter = -1]
          [] OTHER -> moved

ScaleViewport(s, mouse, click) ==
    LET newSize == mouseToScale(mouse[1] - s.g_scaleStartMouse[1],
                                mouse[2] - s.g_scaleStartMouse[2],
                                s.g_scaleStartSize, s.g_scaleMode)
        moved == IF s.g_viewportHovered /\ InRange(s, s.g_scaledEmitter)
                 THEN SetField(s, s.g_scaledEmitter, "size", newSize)
                 ELSE s
    IN  CASE click = "viewportLeft" ->
                 [moved EXCEPT !.g_scaleMode = "None", !.g_scaledEmitter = -1]
          [] click = "viewportRight" ->
                 [(IF InRange(moved, moved.g_scaledEmitter)
                   THEN SetField(moved, moved.g_scaledEmitter, "size",
                                 moved.g_scaleStartSize)
                   ELSE moved)
                  EXCEPT !.g_scaleMode = "None", !.g_scaledEmitter = -1]
          [] OTHER -> moved

RotationViewport(s, mouse, click) ==
    LET delta == mouseToRotation(mouse[1] - s.g_rotationStartMouse[1],
                                 mouse[2] - s.g_rotationStartMouse[2],
                                 s.g_rotationMode)
        moved == IF s.g_viewportHovered /\ InRange(s, s.g_rotatedEmitter)
                 THEN SetField(s, s.g_rotatedEmitter, "rotationAngles",
                               Vec3Add(s.g_rotationStartRotation, delta))
                 ELSE s
    IN  CASE click = "viewportLeft" ->
                 [moved EXCEPT !.g_rotationMode = "None", !.g_rotatedEmitter = -1]
          [] click = "viewportRight" ->
                 [(IF InRange(moved, moved.g_rotatedEmitter)
                   THEN SetField(moved, moved.g_rotatedEmitter, "rotationAngles",
                                 moved.g_rotationStartRotation)
                   ELSE moved)
                  EXCEPT !.g_rotationMode = "None", !.g_rotatedEmitter = -1]
          [] OTHER -> moved

\* pickEmitter's result is an input here: -1 or the index of an emitter
PickViewport(s, click, picked) ==
    IF click = "viewportLeft" /\ picked >= 0
    THEN [s EXCEPT !.selectedEmitter = picked]
    ELSE s

(* main.cpp 822-1101: the preview panel *)
Viewport(s, mouse, click, picked) ==
    IF s.g_grabMode # "None" THEN GrabViewport(s, mouse, click)
    ELSE IF s.g_scaleMode # "None" THEN ScaleViewport(s, mouse, click)
    ELSE IF s.g_rotationMode # "None" THEN RotationViewport(s, mouse, click)
    ELSE PickViewport(s, click, picked)

Preview(s, mouse, click, picked, hovered, previewOk) ==
    IF ~previewOk
    THEN [s EXCEPT !.g_viewportHovered = FALSE, !.rendered = FALSE, !.renderLog = <<>>]
    ELSE ParticleCounter(
             Viewport([ModeIndicators(render(s)) EXCEPT !.g_viewportHovered = hovered,
                                                        !.rendered = TRUE],
                      mouse, click, picked))

GesturesOf(s) ==
    (IF s.g_grabMode # "None" THEN {"grab"} ELSE {})
    \cup (IF s.g_scaleMode # "None" THEN {"scale"} ELSE {})
    \cup (IF s.g_rotationMode # "None" THEN {"rotate"} ELSE {})

Frame(mouse, click, index, file, hovered, previewOk) ==
    \E keys \in {GestureKeys(St, mouse)} :
    \E commands \in {HotkeyCommands(keys)} :
    \E menu \in {MenuBar(commands, click)} :
    \E popups \in {OpenPopups(menu)} :
    \E dialogs \in {FileDialogs(popups, click, openPopup, "a.mdl", file)} :
    \E before \in {PropertyEditorRender(dialogs, click, index)} :
    \E s \in {Preview(before, mouse, click, index, hovered, previewOk)} :
    LET started == GesturesOf(keys) \ ActiveGestures
        clicked == IF click \in {"viewportLeft", "viewportRight"}
                   THEN GesturesOf(before) ELSE {}
    IN  /\ ~windowShouldClose
        \* a modal popup takes the hover away from the viewport
        /\ hovered => (previewOk /\ before.openPopup = "none")
        /\ g_pressed' = s.g_pressed
        /\ g_shiftPressed' = s.g_shiftPressed
        /\ g_viewportHovered' = s.g_viewportHovered
        /\ g_grabMode' = s.g_grabMode
        /\ g_grabStartPosition' = s.g_grabStartPosition
        /\ g_grabStartMouse' = s.g_grabStartMouse
        /\ g_grabbedEmitter' = s.g_grabbedEmitter
        /\ g_scaleMode' = s.g_scaleMode
        /\ g_scaleStartSize' = s.g_scaleStartSize
        /\ g_scaleStartMouse' = s.g_scaleStartMouse
        /\ g_scaledEmitter' = s.g_scaledEmitter
        /\ g_rotationMode' = s.g_rotationMode
        /\ g_rotationStartRotation' = s.g_rotationStartRotation
        /\ g_rotationStartMouse' = s.g_rotationStartMouse
        /\ g_rotatedEmitter' = s.g_rotatedEmitter
        /\ emitters' = s.emitters
        /\ selectedEmitter' = s.selectedEmitter
        /\ currentFilePath' = s.currentFilePath
        /\ savedFile' = s.savedFile
        /\ openPopup' = s.openPopup
        /\ emitterStates' = s.emitterStates
        /\ windowShouldClose' = s.windowShouldClose
        /\ outOfRange' = s.outOfRange
        /\ rendered' = s.rendered
        /\ events' = IF click = "none" THEN events ELSE events + 1
        /\ cancelInput' = (cancelInput \ started) \cup clicked
        /\ renderLog' = s.renderLog
        /\ pressedInGesture' = pressedInGesture \cap s.g_pressed
        /\ startedOn' =
               [g \in {"grab", "scale", "rotate"} |->
                   IF g \notin GesturesOf(s) THEN NoName
                   ELSE IF g \in started
                   THEN Emitter(keys, CASE g = "grab" -> keys.g_grabbedEmitter
                                        [] g = "scale" -> keys.g_scaledEmitter
                                        [] g = "rotate" -> keys.g_rotatedEmitter).name
                   ELSE startedOn[g]]
        /\ UNCHANGED <<simVars, probe, textureVars, toastVars>>

\* a frame in which nothing is clicked
FrameNoClick(mouse, hovered, previewOk) ==
    /\ ~windowShouldClose
    /\ Frame(mouse, "none", 0, NoFile, hovered, previewOk)

\* a frame in which an item of the menu bar is clicked
FrameMenuClick(mouse, item) ==
    /\ events < MaxEvents
    /\ openPopup = "none"
    /\ item \in {"menuDuplicate", "menuDelete"} =>
           (selectedEmitter >= 0 /\ selectedEmitter < Len(emitters))
    /\ Frame(mouse, item, 0, NoFile, FALSE, TRUE)

\* a frame in which a button or a row of the Outliner is clicked
FrameOutlinerClick(mouse, button, index) ==
    /\ events < MaxEvents
    /\ openPopup = "none"
    /\ button = "outlinerSelect" => index < Len(emitters)
    /\ button # "outlinerSelect" => index = 0
    /\ Frame(mouse, button, index, NoFile, FALSE, TRUE)

\* a frame in which the open file dialog is answered
FrameDialogClick(mouse, button, file) ==
    /\ events < MaxEvents
    /\ openPopup # "none"
    /\ (button = "dialogOk" /\ openPopup = "load") \/ file = NoFile
    /\ Frame(mouse, button, 0, file, FALSE, TRUE)

\* a frame in which the viewport image is clicked; picked is what pickEmitter
\* returns when the click selects
FrameViewportClick(mouse, button, picked) ==
    /\ events < MaxEvents
    /\ openPopup = "none"
    /\ picked < Len(emitters)
    /\ Frame(mouse, button, picked, NoFile, TRUE, TRUE)

Next ==
    \/ \E ev \in KeyEvents : KeyCallback(ev)
    \/ \E mouse \in MousePositions, hovered \in BOOLEAN, previewOk \in BOOLEAN :
           FrameNoClick(mouse, hovered, previewOk)
    \/ \E mouse \in MousePositions, item \in MenuItems :
           FrameMenuClick(mouse, item)
    \/ \E mouse \in MousePositions, index \in 0..MaxEvents,
          button \in {"outlinerAdd", "outlinerRemove", "outlinerSelect"} :
           FrameOutlinerClick(mouse, button, index)
    \/ \E mouse \in MousePositions, file \in FileContents,
          button \in {"dialogOk", "dialogCancel"} :
           FrameDialogClick(mouse, button, file)
    \/ \E mouse \in MousePositions, picked \in -1..MaxEvents,
          button \in {"viewportLeft", "viewportRight"} :
           FrameViewportClick(mouse, button, picked)

Spec == Init /\ [][Next]_vars

(***************************************************************************)
(* ParticleRenderer::updateParticles and renderParticles on one store.     *)
(* Time is in ticks: lifeExp and deltaTime are in ticks, birthrate is in   *)
(* particles per second.  Positions, sizes and colours are integers, a     *)
(* particle moves along Z only (xsize = ysize = 0, spread = 0).            *)
(***************************************************************************)
\* the frame times explored
DeltaTimes == {0, 1, TicksPerSecond \div 2, TicksPerSecond}

\* the emitters explored
SimEmitters ==
    {SimEmitter(update, birthrate, lifeExp) :
        update \in {"Fountain", "Single"}, birthrate \in {0, 1, 2, 3},
        lifeExp \in {0, TicksPerSecond \div 2, (3 * TicksPerSecond) \div 2}}

\* a / b rounded to the nearest integer, ties to even: the float division
\* rounds its quotient to the nearest representable value in the same way
RoundDiv(a, b) ==
    LET q == a \div b
        r == a % b
    IN  IF 2 * r < b THEN q
        ELSE IF 2 * r > b THEN q + 1
        ELSE IF q % 2 = 0 THEN q ELSE q + 1

\* glm::mix(x, y, life / maxLife)
Mix(x, y, life, maxLife) == (x * (maxLife - life) + y * life) \div maxLife

\* velocityVar(state.rng): 0.8 or 1.2, in tenths
velocityVar(rng) == IF rng = 0 THEN 8 ELSE 12

\* the index of the first particle that is not active, 0 if all are active
FirstInactive(particles) ==
    IF \E i \in 1..Len(particles) : ~particles[i].active
    THEN CHOOSE i \in 1..Len(particles) :
             ~particles[i].active /\ \A j \in 1..(i - 1) : particles[j].active
    ELSE 0

\* a particle that has already lived through a frame of one second when it appears
InitialParticleAged(emitter, rng) ==
    [active |-> TRUE, life |-> emitter.lifeExp - TicksPerSecond, maxLife |-> emitter.lifeExp,
     position |-> 0, velocity |-> (emitter.velocity * velocityVar(rng)) \div 10,
     color |-> emitter.alphaStart, size |-> emitter.sizeStart, rotation |-> 0]

\* the particle spawnParticle initialises
InitialParticle(emitter, rng) ==
    [active |-> TRUE, life |-> emitter.lifeExp, maxLife |-> emitter.lifeExp,
     position |-> 0, velocity |-> (emitter.velocity * velocityVar(rng)) \div 10,
     color |-> emitter.alphaStart, size |-> emitter.sizeStart, rotation |-> 0]

spawnParticle(emitter, state) ==
    LET slot == FirstInactive(state.particles)
        fresh == InitialParticle(emitter, state.rng)
        drawn == [state EXCEPT !.rng = 1 - @, !.spawned = @ + 1]
    IN  IF slot > 0 THEN [drawn EXCEPT !.particles[slot] = fresh]
        ELSE IF Len(state.particles) < state.maxParticles
        THEN [drawn EXCEPT !.particles = Append(@, fresh)]
        ELSE state

\* a loop body that goes on to move a particle it has just marked inactive
AgeParticleNoSkip(emitter, particle, deltaTime) ==
    IF ~particle.active THEN particle
    ELSE [particle EXCEPT !.life = @ - deltaTime,
                          !.active = particle.life - deltaTime > 0,
                          !.position = @ + particle.velocity * deltaTime,
                          !.rotation = @ + emitter.particleRot * deltaTime]

\* the body of the loop over the existing particles, for one particle
AgeParticle(emitter, particle, deltaTime) ==
    IF ~particle.active THEN particle
    ELSE IF particle.life - deltaTime <= 0
    THEN [particle EXCEPT !.life = @ - deltaTime, !.active = FALSE]
    ELSE LET life == particle.life - deltaTime
             velocity == (particle.velocity - emitter.grav * deltaTime)
                             * (1 - emitter.drag * deltaTime)
         IN  [particle EXCEPT
                 !.life = life,
                 !.position = @ + particle.velocity * deltaTime,
                 !.velocity = velocity,
                 !.color = Mix(emitter.alphaEnd, emitter.alphaStart, life, particle.maxLife),
                 !.size = Mix(emitter.sizeEnd, emitter.sizeStart, life, particle.maxLife),
                 !.rotation = @ + emitter.particleRot * deltaTime]

\* the loop over the existing particles
AgeParticles(emitter, particles, deltaTime) ==
    [i \in 1..Len(particles) |-> AgeParticle(emitter, particles[i], deltaTime)]

\* a spawn loop that also runs while an inactive slot is left
RECURSIVE SpawnLoopReusingSlots(_, _, _)
SpawnLoopReusingSlots(emitter, state, spawnInterval) ==
    IF /\ state.lastSpawnTime >= spawnInterval
       /\ \/ Len(state.particles) < state.maxParticles
          \/ FirstInactive(state.particles) > 0
    THEN SpawnLoopReusingSlots(emitter,
                   [spawnParticle(emitter, state) EXCEPT !.lastSpawnTime = @ - spawnInterval],
                   spawnInterval)
    ELSE state

\* while (lastSpawnTime >= spawnInterval && particles.size() < maxParticles)
RECURSIVE SpawnLoop(_, _, _)
SpawnLoop(emitter, state, spawnInterval) ==
    IF state.lastSpawnTime >= spawnInterval /\ Len(state.particles) < state.maxParticles
    THEN SpawnLoop(emitter,
                   [spawnParticle(emitter, state) EXCEPT !.lastSpawnTime = @ - spawnInterval],
                   spawnInterval)
    ELSE state

\* 1.0f / emitter.birthrate, in ticks
SpawnInterval(emitter) == RoundDiv(TicksPerSecond, emitter.birthrate)

updateParticles(emitter, state, deltaTime) ==
    LET aged == [state EXCEPT !.animationTime = @ + deltaTime,
                              !.particles = AgeParticles(emitter, @, deltaTime)]
    IN  IF emitter.update = "Fountain" /\ emitter.birthrate > 0
        THEN SpawnLoop(emitter, [aged EXCEPT !.lastSpawnTime = @ + deltaTime],
                       SpawnInterval(emitter))
        ELSE aged

\* setupBuffers: the vertex buffer has room for the quads of this many
\* particles (100000 in the code, a fifth of the pool of 500000)
VertexBufferParticles == 2

\* the texture coordinates of the six vertices of a quad
QuadCorners == <<<<0, 0>>, <<1, 0>>, <<1, 1>>, <<0, 0>>, <<1, 1>>, <<0, 1>>>>

\* six vertices that carry the remaining life as the age
QuadOfLife(particle) ==
    [k \in 1..6 |-> [position |-> particle.position, texcoord |-> QuadCorners[k],
                     color |-> particle.color, size |-> particle.size,
                     velocity |-> particle.velocity, age |-> particle.life]]

\* the six vertices renderParticles inserts for one particle
QuadOf(particle) ==
    [k \in 1..6 |-> [position |-> particle.position, texcoord |-> QuadCorners[k],
                     color |-> particle.color, size |-> particle.size,
                     velocity |-> particle.velocity,
                     age |-> particle.maxLife - particle.life]]

\* the loop of renderParticles over the first n particles
RECURSIVE VertexData(_, _)
VertexData(particles, n) ==
    IF n = 0 THEN <<>>
    ELSE IF ~particles[n].active THEN VertexData(particles, n - 1)
    ELSE VertexData(particles, n - 1) \o QuadOf(particles[n])

\* renderParticles: the store it leaves and the vertex data it uploads
renderParticles(emitter, state) ==
    [state |-> state, vertexData |-> VertexData(state.particles, Len(state.particles))]

\* one frame advances the store and renders it
SimFrame(deltaTime) ==
    /\ simState.animationTime + deltaTime <= MaxTime
    /\ \E r \in {renderParticles(simEmitter,
                                 updateParticles(simEmitter, simState, deltaTime))} :
           /\ simState' = r.state
           /\ simOut' = [vertexData |-> r.vertexData, deltaTime |-> deltaTime]
    /\ UNCHANGED <<editorVars, simEmitter, probe, textureVars, toastVars>>

InitSim ==
    /\ InitEditor
    /\ simEmitter \in SimEmitters
    /\ \E maxParticles \in 1..MaxParticles, rng \in {0, 1} :
           simState = [ParticleSystemState EXCEPT !.maxParticles = maxParticles,
                                                  !.rng = rng]
    /\ simOut = NoOutput
    /\ probe = NoProbe
    /\ InitTextures
    /\ InitToasts

NextSim == \E deltaTime \in DeltaTimes : SimFrame(deltaTime)

SpecSim == InitSim /\ [][NextSim]_vars

(***************************************************************************)
(* Picking.  Lengths are in hundredths of a world unit; the square root    *)
(* is rounded down to a whole hundredth.                                   *)
(***************************************************************************)
\* std::numeric_limits<float>::max()
FloatMax == 1000000

\* sqrt(x), rounded down
Sqrt(x) == CHOOSE n \in 0..x : n * n <= x /\ (n + 1) * (n + 1) > x

\* sin(glm::radians(spread * 0.5f)), in hundredths, of the spreads explored
SinHalfSpread(spread) == IF spread = 45 THEN 38 ELSE 0

\* createRayFromMouse for the camera of Camera::reset and the centre of the
\* viewport: from the camera position along +Y
createRayFromMouse == [origin |-> <<0, -500, 0>>, direction |-> <<0, 1, 0>>]

Miss == [hit |-> FALSE, distance |-> 0]

\* the roots of the quadratic, the nearer positive one first
rayIntersectsSphere(ray, center, radius) ==
    LET oc == Vec3Sub(ray.origin, center)
        a == Dot(ray.direction, ray.direction)
        b == 2 * Dot(oc, ray.direction)
        c == Dot(oc, oc) - radius * radius
        discriminant == b * b - 4 * a * c
    IN  IF discriminant < 0 THEN Miss
        ELSE LET sqrtDiscriminant == Sqrt(discriminant)
                 t1 == (-b - sqrtDiscriminant) \div (2 * a)
                 t2 == (-b + sqrtDiscriminant) \div (2 * a)
             IN  IF t1 > 0 THEN [hit |-> TRUE, distance |-> t1]
                 ELSE IF t2 > 0 THEN [hit |-> TRUE, distance |-> t2]
                 ELSE Miss

\* the sphere of sample i of the cone: its centre on the axis and its radius
ConeSample(apex, direction, height, sinAngle, i) ==
    LET t == (height * i) \div 10
    IN  [point |-> Vec3Add(apex, Vec3Scale(direction, t)),
         radius |-> (t * sinAngle) \div 100]

\* the loop over the samples i..10: the first sample sphere the ray hits
RECURSIVE rayIntersectsCone(_, _, _, _, _, _)
rayIntersectsCone(ray, apex, direction, height, sinAngle, i) ==
    IF i > 10 THEN Miss
    ELSE LET sample == ConeSample(apex, direction, height, sinAngle, i)
             found == IF sample.radius > 10
                      THEN rayIntersectsSphere(ray, sample.point, sample.radius)
                      ELSE Miss
         IN  IF found.hit THEN found
             ELSE rayIntersectsCone(ray, apex, direction, height, sinAngle, i + 1)

\* std::max(0.5f, std::max(xsize, ysize) * 0.5f + 0.2f); the sizes are in tenths
nodeRadius(emitter) == Max(50, (Max(emitter.xsize, emitter.ysize) * 10) \div 2 + 20)

\* the body of the loop of pickEmitter for emitter i (0-based), given the
\* closest emitter and distance so far
PickStep(ray, emitter, i, closest) ==
    LET node == rayIntersectsSphere(ray, emitter.position, nodeRadius(emitter))
        afterNode == IF node.hit /\ node.distance < closest.distance
                     THEN [emitter |-> i, distance |-> node.distance]
                     ELSE closest
        cone == IF emitter.velocity > 0 /\ emitter.spread > 0
                THEN rayIntersectsCone(ray, emitter.position, <<0, 0, 1>>, 200,
                                       SinHalfSpread(emitter.spread), 1)
                ELSE Miss
    IN  IF cone.hit /\ cone.distance < afterNode.distance
        THEN [emitter |-> i, distance |-> cone.distance]
        ELSE afterNode

\* the loop of pickEmitter over the first n emitters
RECURSIVE PickLoop(_, _, _)
PickLoop(ray, ems, n) ==
    IF n = 0 THEN [emitter |-> -1, distance |-> FloatMax]
    ELSE PickStep(ray, ems[n], n - 1, PickLoop(ray, ems, n - 1))

pickEmitter(ems, ray) == PickLoop(ray, ems, Len(ems)).emitter

(***************************************************************************)
(* The functions above applied to arguments drawn from bounded sets.       *)
(***************************************************************************)
\* mouse deltas between the positions explored
MouseDeltas == {-100, 0, 100}

MovementInputs ==
    [function : {"mouseToCameraRelativeMovement"}, camera : Cameras,
     dx : MouseDeltas, dy : MouseDeltas, grabMode : GrabModes,
     applied : {FALSE}, result : {<<0, 0, 0>>}]

\* emitters on and under the ray, with and without a spread cone
PickEmitters ==
    {[createDefaultEmitter EXCEPT !.position = <<0, y, z>>, !.spread = spread] :
        y \in {0, 20}, z \in {0, -100, 300}, spread \in {0, 45}}

RECURSIVE PickLists(_)
PickLists(n) ==
    IF n = 0 THEN {<<>>}
    ELSE PickLists(n - 1)
         \cup {Append(ems, e) : ems \in {l \in PickLists(n - 1) : Len(l) = n - 1},
                                e \in PickEmitters}

PickInputs ==
    {[function |-> "pickEmitter", emitters |-> ems, selectedEmitter |-> selected,
      applied |-> FALSE, result |-> -1, selectedAfter |-> selected] :
        ems \in PickLists(MaxPickEmitters), selected \in {-1, 0}}

\* start sizes, in tenths: the scenario's (1, 1), the default emitter's, one
\* with an axis near the upper bound, and one with a negative axis
ScaleInputs ==
    [function : {"mouseToScale"}, dx : {0, 100}, dy : {-100, -10, 0, 100, 200},
     startSize : {<<10, 10>>, <<1, 1>>, <<10, 4000>>, <<-10, 10>>},
     scaleMode : ScaleModes, applied : {FALSE}, result : {<<0, 0>>}]

\* a drag of the scaled emitter is converted to a size
ApplyScale ==
    /\ probe.function = "mouseToScale"
    /\ ~probe.applied
    /\ probe' = [probe EXCEPT
                    !.applied = TRUE,
                    !.result = mouseToScale(probe.dx, probe.dy, probe.startSize,
                                            probe.scaleMode)]
    /\ UNCHANGED <<editorVars, simVars, textureVars, toastVars>>

(* main.cpp 1440-1660: the text of a model file. A line is its first token
   and the text after it; the text is a number, a word that is no number, or
   nothing at all. *)
NumberText(value) == [kind |-> "number", value |-> value, word |-> ""]

WordText(word) == [kind |-> "word", value |-> 0, word |-> word]

NoText == [kind |-> "none", value |-> 0, word |-> ""]

\* three numbers after the token
VectorText(vector) == [kind |-> "vector", value |-> 0, word |-> "", vector |-> vector]

NodeLine(nodeType, name) ==
    [token |-> "node", nodeType |-> nodeType, name |-> name, text |-> NoText]

FieldLine(token, text) ==
    [token |-> token, nodeType |-> "", name |-> Name("", 0), text |-> text]

EndNode == FieldLine("endnode", NoText)

\* MDL is Y-up and the editor Z-up: X -> X, Y -> Z, Z -> Y
convertMDLToGame(mdlPos) == <<mdlPos[1], mdlPos[3], mdlPos[2]>>

convertGameToMDL(gamePos) == <<gamePos[1], gamePos[3], gamePos[2]>>

\* ss >> variable, for an int or a float: a failed conversion stores zero, and
\* with no characters left nothing is stored
Extract(text, old) ==
    CASE text.kind = "number" -> text.value
      [] text.kind = "word" -> 0
      [] OTHER -> old

\* int val; ss >> val; flag = (val != 0): with no characters left val is read
\* uninitialized, and uninitialized tells whether it is found nonzero
ExtractFlag(text, uninitialized) ==
    CASE text.kind = "number" -> text.value # 0
      [] text.kind = "word" -> FALSE
      [] OTHER -> uninitialized

UpdateTypes == {"Fountain", "Single", "Explosion", "Lightning"}

\* the chain of comparisons of updateStr assigns for the four names only
ParseUpdate(text, old) ==
    IF text.kind = "word" /\ text.word \in UpdateTypes THEN text.word ELSE old

ParseField(emitter, line, uninitialized) ==
    CASE line.token = "inherit" ->
             [emitter EXCEPT !.inherit = ExtractFlag(line.text, uninitialized)]
      [] line.token = "update" ->
             [emitter EXCEPT !.update = ParseUpdate(line.text, @)]
      [] line.token = "xgrid" -> [emitter EXCEPT !.xgrid = Extract(line.text, @)]
      [] line.token = "ygrid" -> [emitter EXCEPT !.ygrid = Extract(line.text, @)]
      [] line.token = "xsize" -> [emitter EXCEPT !.xsize = Extract(line.text, @)]
      [] line.token = "ysize" -> [emitter EXCEPT !.ysize = Extract(line.text, @)]
      [] line.token = "position" /\ line.text.kind = "vector" ->
             [emitter EXCEPT !.position = convertMDLToGame(line.text.vector)]
      [] OTHER -> emitter

\* the while loop over the lines; current is the index of *currentEmitter,
\* 0 for nullptr
RECURSIVE ParseLines(_, _, _, _, _)
ParseLines(lines, i, ems, current, uninitialized) ==
    IF i > Len(lines) THEN ems
    ELSE LET line == lines[i]
             existing == {k \in 1..Len(ems) : ems[k].name = line.name}
         IN  IF line.token = "node"
             THEN IF line.nodeType # "emitter"
                  THEN ParseLines(lines, i + 1, ems, current, uninitialized)
                  ELSE IF existing # {}
                  THEN ParseLines(lines, i + 1, ems,
                                  CHOOSE k \in existing : \A j \in existing : k <= j,
                                  uninitialized)
                  ELSE ParseLines(lines, i + 1,
                                  Append(ems, [createDefaultEmitter EXCEPT !.name = line.name]),
                                  Len(ems) + 1, uninitialized)
             ELSE IF current # 0 /\ line.token = "endnode"
             THEN ParseLines(lines, i + 1, ems, 0, uninitialized)
             ELSE IF current # 0
             THEN ParseLines(lines, i + 1,
                             [ems EXCEPT ![current] = ParseField(@, line, uninitialized)],
                             current, uninitialized)
             ELSE ParseLines(lines, i + 1, ems, current, uninitialized)

\* the emitters after loadFromMDL of a file that opens
parseMDL(lines, uninitialized) == ParseLines(lines, 1, <<>>, 0, uninitialized)

\* ss << value for a float: the stream's precision is 6 significant digits
FormatFloat(value) ==
    LET scale == IF Abs(value) < 1000000 THEN 1
                 ELSE IF Abs(value) < 10000000 THEN 10 ELSE 100
        digits == ((Abs(value) + scale \div 2) \div scale) * scale
    IN  NumberText(IF value < 0 THEN -digits ELSE digits)

FormatVector(vector) ==
    VectorText([k \in 1..3 |-> FormatFloat(vector[k]).value])

\* the lines of one emitter node
EmitterText(emitter) ==
    <<NodeLine("emitter", emitter.name),
      FieldLine("inherit", NumberText(IF emitter.inherit THEN 1 ELSE 0)),
      FieldLine("update", WordText(emitter.update)),
      FieldLine("xgrid", NumberText(emitter.xgrid)),
      FieldLine("ygrid", NumberText(emitter.ygrid)),
      FieldLine("position", FormatVector(convertGameToMDL(emitter.position)))>>
    \o (IF emitter.xsize > 0 \/ emitter.ysize > 0
        THEN <<FieldLine("xsize", FormatFloat(emitter.xsize)),
               FieldLine("ysize", FormatFloat(emitter.ysize))>>
        ELSE <<>>)
    \o <<EndNode>>

RECURSIVE EmittersText(_, _)
EmittersText(ems, i) ==
    IF i > Len(ems) THEN <<>> ELSE EmitterText(ems[i]) \o EmittersText(ems, i + 1)

\* the root dummy node, then the emitter nodes
generateMDLText(ems) ==
    <<NodeLine("dummy", Name("model", 0)), FieldLine("parent", WordText("NULL")), EndNode>>
    \o EmittersText(ems, 1)

\* field lines of a file: values that parse, a word where a value is
\* expected, and no value
FieldLines ==
    {FieldLine(token, text) :
        token \in {"xgrid", "xsize", "inherit"},
        text \in {NumberText(3), NumberText(0), WordText("abc"), NoText}}
    \cup {FieldLine("update", text) :
             text \in {WordText("Single"), WordText("abc"), NoText}}

FieldLists == UNION {[1..n -> FieldLines] : n \in 0..MaxFields}

\* a file of one emitter node, and then nothing, or a second node with one
\* field: of another name, of the same name, or without a name
MDLFiles ==
    {<<NodeLine("emitter", Name("node", 1))>> \o fields \o <<EndNode>> \o rest :
        fields \in FieldLists,
        rest \in {<<>>}
                 \cup {<<NodeLine(nodeType, name), line, EndNode>> :
                          nodeType \in {"emitter", "dummy"},
                          name \in {Name("node", 1), Name("node", 2), Name("", 0)},
                          line \in FieldLines}}

LoadInputs ==
    {[function |-> "loadFromMDL", lines |-> lines, uninitialized |-> uninitialized,
      applied |-> FALSE, result |-> <<>>] :
        lines \in MDLFiles, uninitialized \in BOOLEAN}

\* emitters to save: sizes in tenths from 0 to the upper bound of a scaling,
\* positions in hundredths, the last one with seven digits
SavedEmitters ==
    {[createDefaultEmitter EXCEPT !.name = Name("node", 1), !.xsize = xsize,
                                  !.ysize = ysize, !.position = position] :
        xsize \in {0, 1, 25, ScaleMax}, ysize \in {0, 1, ScaleMax},
        position \in {<<0, 0, 0>>, <<100, 200, -300>>, <<1234567, 0, 50>>}}

SaveInputs ==
    {[function |-> "saveToMDL", emitters |-> ems, applied |-> FALSE, result |-> <<>>] :
        ems \in {<<>>} \cup {<<e>> : e \in SavedEmitters}
                 \cup {<<e, [createDefaultEmitter EXCEPT !.name = Name("node", 2)]>> :
                          e \in SavedEmitters}}

\* the document is saved and the file is loaded
ApplySaveAndLoad ==
    /\ probe.function = "saveToMDL"
    /\ ~probe.applied
    /\ probe' = [probe EXCEPT !.applied = TRUE,
                              !.result = parseMDL(generateMDLText(probe.emitters), FALSE)]
    /\ UNCHANGED <<editorVars, simVars, textureVars, toastVars>>

\* a list of n emitters after some frames: store i has its own clock, spawn
\* time and number of particles
RemoveInputs ==
    {[function |-> "removeEmitter",
      emitters |-> [i \in 1..n |-> [createDefaultEmitter EXCEPT !.name = Name("emitter", i)]],
      emitterStates |-> [i \in 1..n |-> [advanced |-> TRUE, animationTime |-> 10 * i,
                                         lastSpawnTime |-> 10 * i - 1, particles |-> i]],
      index |-> index, applied |-> FALSE, result |-> <<>>] :
        n \in 1..MaxStores, index \in 0..(MaxStores - 1)}

\* an emitter is removed and the next frame renders: result holds, for each
\* pass of the loop of render, the emitter and the store it is called with
ApplyRemove ==
    /\ probe.function = "removeEmitter"
    /\ ~probe.applied
    /\ \E ems \in {removeEmitter(probe.emitters, probe.index)} :
       \E states \in {ResizeStores(probe.emitterStates, Len(ems))} :
           probe' = [probe EXCEPT
                        !.applied = TRUE,
                        !.result = [i \in 1..Len(ems) |->
                                       [name |-> ems[i].name, state |-> states[i]]]]
    /\ UNCHANGED <<editorVars, simVars, textureVars, toastVars>>

\* a model file is loaded
ApplyLoad ==
    /\ probe.function = "loadFromMDL"
    /\ ~probe.applied
    /\ probe' = [probe EXCEPT !.applied = TRUE,
                              !.result = parseMDL(probe.lines, probe.uninitialized)]
    /\ UNCHANGED <<editorVars, simVars, textureVars, toastVars>>

(* The operations on the document: the emitter list, the selection and the
   file path, as the commands of main, the Outliner and the property editor
   change them. *)
documentRest ==
    <<g_pressed, g_shiftPressed, g_viewportHovered,
      g_grabMode, g_grabStartPosition, g_grabStartMouse, g_grabbedEmitter,
      g_scaleMode, g_scaleStartSize, g_scaleStartMouse, g_scaledEmitter,
      g_rotationMode, g_rotationStartRotation, g_rotationStartMouse, g_rotatedEmitter,
      savedFile, openPopup, emitterStates, windowShouldClose, outOfRange, rendered,
      events, cancelInput, renderLog, pressedInGesture, startedOn>>

DocumentStep(s) ==
    /\ emitters' = s.emitters
    /\ selectedEmitter' = s.selectedEmitter
    /\ currentFilePath' = s.currentFilePath
    /\ UNCHANGED <<documentRest, simVars, probe, textureVars, toastVars>>

\* the names typed into the Name field: nothing, blanks, and names
TypedNames == {Name("", 0), Name(" ", 0), Name("emitter", 2), Name("fire", 0)}

\* part_000 101-117: the edited Name field
renderEmitterProperties(emitter, newName) ==
    IF newName = Name("", 0) \/ newName = Name(" ", 0)
    THEN [emitter EXCEPT !.name = Name("default_emitter", 0)]
    ELSE [emitter EXCEPT !.name = newName]

\* the model files of the document operations: nodes without fields
DocumentFiles ==
    {<<>>,
     <<NodeLine("emitter", Name("node", 1)), EndNode>>,
     <<NodeLine("emitter", Name("node", 1)), EndNode,
       NodeLine("emitter", Name("node", 2)), EndNode>>,
     <<NodeLine("emitter", Name("node", 1)), EndNode,
       NodeLine("emitter", Name("node", 1)), EndNode>>,
     <<NodeLine("emitter", Name("", 0)), EndNode>>}

DocumentAdd ==
    /\ Len(emitters) < MaxDocumentEmitters
    /\ DocumentStep(AddCommand(St))

DocumentDuplicate ==
    /\ Len(emitters) < MaxDocumentEmitters
    /\ \E s \in {DuplicateCommand(St)} :
           /\ \A i \in 1..Len(s.emitters) : s.emitters[i].name.num <= MaxSuffix
           /\ DocumentStep(s)

DocumentDelete == DocumentStep(DeleteCommand(St))

DocumentSelect(index) ==
    /\ index < Len(emitters)
    /\ DocumentStep(renderOutliner(St, "outlinerSelect", index))

DocumentRename(newName) ==
    /\ InRange(St, selectedEmitter)
    /\ emitters' = [emitters EXCEPT ![selectedEmitter + 1] =
                                        renderEmitterProperties(@, newName)]
    /\ UNCHANGED <<selectedEmitter, currentFilePath, documentRest, simVars, probe,
                   textureVars, toastVars>>

DocumentNew == DocumentStep(NewDocument(St))

DocumentLoad(lines) ==
    DocumentStep([St EXCEPT !.emitters = parseMDL(lines, FALSE),
                            !.selectedEmitter = 0,
                            !.currentFilePath = "a.mdl"])

NextDocument ==
    \/ DocumentAdd
    \/ DocumentDuplicate
    \/ DocumentDelete
    \/ \E index \in 0..(MaxDocumentEmitters - 1) : DocumentSelect(index)
    \/ \E newName \in TypedNames : DocumentRename(newName)
    \/ DocumentNew
    \/ \E lines \in DocumentFiles : DocumentLoad(lines)

SpecDocument == Init /\ [][NextDocument]_vars

(* particle_system.cpp 695-799: textures. A state is a record of the
   renderer's texture fields; found says whether one of the image files of
   the name could be read, which the disk decides. *)
Tx ==
    [textureCache |-> textureCache, textures |-> textures, diskLoads |-> diskLoads]

\* a load that remembers the names it found only
loadTextureForgettingFailures(s, name, found) ==
    IF name = "" THEN s
    ELSE IF name \in DOMAIN s.textureCache THEN s
    ELSE LET read == [s EXCEPT !.diskLoads[name] = @ + 1]
             texture == Len(s.textures) + 1
         IN  IF found
             THEN [read EXCEPT !.textures = Append(@, texture),
                               !.textureCache = name :> texture @@ @]
             ELSE read

\* glGenTextures gives a handle that was not given before
loadTexture(s, name, found) ==
    IF name = "" THEN s
    ELSE IF name \in DOMAIN s.textureCache THEN s
    ELSE LET read == [s EXCEPT !.diskLoads[name] = @ + 1]
             texture == Len(s.textures) + 1
         IN  IF found
             THEN [read EXCEPT !.textures = Append(@, texture),
                               !.textureCache = name :> texture @@ @]
             ELSE [read EXCEPT !.textureCache = name :> 0 @@ @]

\* the state after the call, and the handle returned
getTexture(s, name, found) ==
    IF name = "" THEN [state |-> s, handle |-> 0]
    ELSE LET loaded == IF name \in DOMAIN s.textureCache THEN s
                       ELSE loadTexture(s, name, found)
         IN  [state |-> loaded,
              handle |-> IF name \in DOMAIN loaded.textureCache
                         THEN loaded.textureCache[name] ELSE 0]

\* renderParticles asks for the texture of an emitter
GetTexture(name, found) ==
    /\ diskLoads[name] < MaxLoads
    /\ \E r \in {getTexture(Tx, name, found)} :
           /\ textureCache' = r.state.textureCache
           /\ textures' = r.state.textures
           /\ diskLoads' = r.state.diskLoads
           /\ loadedFrom' = IF name \in DOMAIN r.state.textureCache \ DOMAIN textureCache
                            THEN name :> textureDirectory @@ loadedFrom
                            ELSE loadedFrom
           /\ lastTexture' = [name |-> name, handle |-> r.handle,
                              cached |-> name \in DOMAIN textureCache,
                              requestedIn |-> textureDirectory,
                              resolvedIn |-> IF name \in DOMAIN textureCache
                                             THEN loadedFrom[name]
                                             ELSE textureDirectory]
    /\ UNCHANGED <<editorVars, simVars, probe, textureDirectory, toastVars>>

\* main passes the editor's texture directory on
setTextureDirectory(directory) ==
    /\ textureDirectory' = directory
    /\ UNCHANGED <<editorVars, simVars, probe, textureCache, textures, diskLoads,
                   lastTexture, loadedFrom, toastVars>>

NextTextures ==
    \/ \E name \in TextureNames, found \in BOOLEAN : GetTexture(name, found)
    \/ \E directory \in TextureDirectories : setTextureDirectory(directory)

SpecTextures == Init /\ [][NextTextures]_vars

(***************************************************************************)
(* The notifications.  Times are in ticks.  A toast is known by the        *)
(* ordinal of the addToast call that made it.                              *)
(***************************************************************************)
\* Toast::duration as addToast sets it (defaultDuration = 5.0f)
defaultDuration == 5 * TicksPerSecond

\* Toast::fadeOutDuration = 0.5f
fadeOutDuration == TicksPerSecond \div 2

Toast(title) == [title |-> title, duration |-> defaultDuration, timeAlive |-> 0]

shouldRemove(toast) == toast.timeAlive > toast.duration + fadeOutDuration

\* the values setMaxToasts is called with
MaxToastsValues == -1 .. MaxToastsSet

\* the modulus of size_t: 2^64 in the build; any modulus above the lengths of
\* the queue gives the same comparisons
SizeModulus == 2 ^ 30

\* static_cast<size_t>(int)
SizeT(n) == n % SizeModulus

\* the loop of addToast: erase the first toast while the queue is at least
\* limit long.  Erasing begin() of an empty vector is undefined
RECURSIVE evictOldest(_, _)
evictOldest(queue, limit) ==
    IF Len(queue) >= limit
    THEN IF queue = <<>> THEN [toasts |-> queue, defined |-> FALSE]
         ELSE evictOldest(Tail(queue), limit)
    ELSE [toasts |-> queue, defined |-> TRUE]

\* what erase(begin()) of an empty vector can lead to: the size of the vector
\* wraps around and the loop goes on, or the process is ended by a fault
UndefinedOutcomes == {"loops", "fault"}

ToastsRunning == toastCall.outcome \in {"none", "returned"}

addToast ==
    /\ ToastsRunning
    /\ toastsAdded < MaxToastsAdded
    /\ toastsAdded' = toastsAdded + 1
    /\ \E r \in {evictOldest(toasts, SizeT(maxToasts))} :
           IF r.defined
           THEN /\ toasts' = Append(r.toasts, Toast(toastsAdded + 1))
                /\ toastCall' = [outcome |-> "returned", before |-> toasts,
                                 maxToasts |-> maxToasts, after |-> toasts']
           ELSE /\ toasts' = r.toasts
                /\ \E outcome \in UndefinedOutcomes :
                       toastCall' = [outcome |-> outcome, before |-> toasts,
                                     maxToasts |-> maxToasts, after |-> toasts']
    /\ UNCHANGED <<editorVars, simVars, probe, textureVars, maxToasts>>

setMaxToasts(max) ==
    /\ ToastsRunning
    /\ maxToasts' = max
    /\ UNCHANGED <<editorVars, simVars, probe, textureVars, toasts, toastsAdded, toastCall>>

\* removeExpiredToasts
RECURSIVE removeExpiredToasts(_)
removeExpiredToasts(queue) ==
    IF queue = <<>> THEN <<>>
    ELSE IF shouldRemove(Head(queue)) THEN removeExpiredToasts(Tail(queue))
    ELSE <<Head(queue)>> \o removeExpiredToasts(Tail(queue))

\* ToastManager::update
updateToasts(deltaTime) ==
    /\ ToastsRunning
    /\ toasts # <<>>
    /\ toasts' = removeExpiredToasts(
                     [i \in 1..Len(toasts) |->
                         [toasts[i] EXCEPT !.timeAlive = @ + deltaTime]])
    /\ UNCHANGED <<editorVars, simVars, probe, textureVars, maxToasts, toastsAdded,
                   toastCall>>

NextToasts ==
    \/ addToast
    \/ \E max \in MaxToastsValues : setMaxToasts(max)
    \/ updateToasts(3 * TicksPerSecond)

SpecToasts == Init /\ [][NextToasts]_vars

(* emitter.hpp: animation tracks. Times are whole time units, values are in
   hundredths. A float result is a record: nan is TRUE when every component
   is NaN, and value is then of no meaning. *)
AnimationKeyframe(time, value) == [time |-> time, value |-> value]

NotANumber == [nan |-> TRUE, value |-> <<0, 0, 0>>]

Number(value) == [nan |-> FALSE, value |-> value]

\* glm::mix(x, y, a) with a = num / den: x * (1 - a) + y * a
mix(x, y, num, den) ==
    [k \in 1..3 |-> x[k] + ((y[k] - x[k]) * num) \div den]

\* the first i with keyframes[i].time <= time <= keyframes[i + 1].time, or 0
RECURSIVE FirstSegment(_, _, _)
FirstSegment(keyframes, time, i) ==
    IF i > Len(keyframes) - 1 THEN 0
    ELSE IF time >= keyframes[i].time /\ time <= keyframes[i + 1].time THEN i
    ELSE FirstSegment(keyframes, time, i + 1)

\* t is a float division: of 0 by 0 in a segment of no duration, which is NaN,
\* and mix of anything with NaN is NaN
getValueAtTime(keyframes, time) ==
    IF keyframes = <<>> THEN Number(<<0, 0, 0>>)
    ELSE IF Len(keyframes) = 1 THEN Number(keyframes[1].value)
    ELSE LET i == FirstSegment(keyframes, time, 1)
         IN  IF i # 0
             THEN IF keyframes[i + 1].time = keyframes[i].time
                  THEN NotANumber
                  ELSE Number(mix(keyframes[i].value, keyframes[i + 1].value,
                                  time - keyframes[i].time,
                                  keyframes[i + 1].time - keyframes[i].time))
             ELSE IF time < keyframes[1].time THEN Number(keyframes[1].value)
             ELSE Number(keyframes[Len(keyframes)].value)

getAnimatedPosition(emitter, time) ==
    IF emitter.positionKeys = <<>> THEN Number(emitter.position)
    ELSE getValueAtTime(emitter.positionKeys, time)

\* the keyframes a model file can give a track: any times in any order
KeyframeTimes == {0, 5, 10}

KeyframeValues == {<<0, 0, 0>>, <<1000, 0, 0>>}

Keyframes == {AnimationKeyframe(time, value) : time \in KeyframeTimes, value \in KeyframeValues}

Tracks == UNION {[1..n -> Keyframes] : n \in 0..MaxKeyframes}

QueryTimes == {-1, 0, 5, 7, 10, 100}

TrackInputs ==
    {[function |-> "getAnimatedPosition", positionKeys |-> keyframes,
      position |-> <<700, 0, 0>>, time |-> time, applied |-> FALSE,
      result |-> Number(<<0, 0, 0>>)] : keyframes \in Tracks, time \in QueryTimes}

\* the position of an emitter is asked for at a time
ApplyTrack ==
    /\ probe.function = "getAnimatedPosition"
    /\ ~probe.applied
    /\ probe' = [probe EXCEPT
                    !.applied = TRUE,
                    !.result = getAnimatedPosition(probe, probe.time)]
    /\ UNCHANGED <<editorVars, simVars, textureVars, toastVars>>

\* a drag of the grabbed emitter is converted to a movement
ApplyMovement ==
    /\ probe.function = "mouseToCameraRelativeMovement"
    /\ ~probe.applied
    /\ probe' = [probe EXCEPT
                    !.applied = TRUE,
                    !.result = mouseToCameraRelativeMovement(probe.camera, probe.dx,
                                                             probe.dy, probe.grabMode)]
    /\ UNCHANGED <<editorVars, simVars, textureVars, toastVars>>

\* a left click in the viewport outside a gesture picks an emitter
ApplyPick ==
    /\ probe.function = "pickEmitter"
    /\ ~probe.applied
    /\ \E picked \in {pickEmitter(probe.emitters, createRayFromMouse)} :
           probe' = [probe EXCEPT
                        !.applied = TRUE,
                        !.result = picked,
                        !.selectedAfter =
                            PickViewport([St EXCEPT !.emitters = probe.emitters,
                                                    !.selectedEmitter = probe.selectedEmitter],
                                         "viewportLeft", picked).selectedEmitter]
    /\ UNCHANGED <<editorVars, simVars, textureVars, toastVars>>

(***************************************************************************)
(* The DDS decoder.  A file is its header fields and its length in bytes;  *)
(* the decoder's effect is the set of bytes of the output buffer it writes *)
(* and the set of bytes after the header it reads.                         *)
(***************************************************************************)
\* sizeof(BioDDSHeader)
BioHeaderSize == 20

\* the magic number and sizeof(DDSHeader)
DDSHeaderSize == 128

\* the pixels of a block
BlockPixels == {<<x, y>> : x \in 0..3, y \in 0..3}

\* the bytes decompress_dxt1_block writes, counted from output
decompress_dxt1_block(width, channels) ==
    UNION {{(p[2] * width + p[1]) * channels + c :
               c \in 0..(IF channels = 4 THEN 3 ELSE 2)} : p \in BlockPixels}

\* the bytes decompress_dxt5_block and decompress_dxt3_block write
decompress_dxt5_block(width) ==
    UNION {{(p[2] * width + p[1]) * 4 + c : c \in 0..3} : p \in BlockPixels}

\* the loops over the blocks: every block is read at blockIndex * stride, read
\* bytes long, and written from the pixel of its upper left corner
DecodeBlocks(width, height, output_channels, stride, read, blockWrites) ==
    LET blocksWide == (width + 3) \div 4
        blocksHigh == (height + 3) \div 4
        blocks == {<<blockX, blockY>> : blockX \in 0..(blocksWide - 1),
                                         blockY \in 0..(blocksHigh - 1)}
        blockData(b) == (b[2] * blocksWide + b[1]) * stride
        outputPtr(b) == ((b[2] * 4) * width + b[1] * 4) * output_channels
    IN  [decoded |-> TRUE,
         outputSize |-> width * height * output_channels,
         written |-> UNION {{outputPtr(b) + i : i \in blockWrites} : b \in blocks},
         read |-> UNION {{blockData(b) + i : i \in 0..(read - 1)} : b \in blocks}]

\* nullptr
NotDecoded == [decoded |-> FALSE, outputSize |-> 0, written |-> {}, read |-> {}]

\* possibleWidth > 0, at most 4096 and a power of two
PowersOfTwo == {2 ^ k : k \in 0..12}

is_bioware_dds(file) ==
    file.len >= 20 /\ file.magic # "DDS " /\ file.width \in PowersOfTwo

stbi_load_dds_from_memory(file, desired_channels) ==
    IF ~(file.magic = "DDS " \/ is_bioware_dds(file)) THEN NotDecoded
    ELSE IF is_bioware_dds(file)
    THEN IF file.len < BioHeaderSize THEN NotDecoded
         ELSE LET channels_in_file == IF file.channels = 3 THEN 3 ELSE 4
                  output_channels == IF desired_channels # 0 THEN desired_channels
                                     ELSE channels_in_file
              IN  IF file.channels = 3
                  THEN DecodeBlocks(file.width, file.height, output_channels, 8, 8,
                                    decompress_dxt1_block(file.width, output_channels))
                  ELSE DecodeBlocks(file.width, file.height, output_channels, 8, 16,
                                    decompress_dxt5_block(file.width))
    ELSE IF file.len < DDSHeaderSize THEN NotDecoded
    ELSE IF file.fourCC = "DXT1"
    THEN LET output_channels == IF desired_channels # 0 THEN desired_channels ELSE 3
         IN  DecodeBlocks(file.width, file.height, output_channels, 8, 8,
                          decompress_dxt1_block(file.width, output_channels))
    ELSE IF file.fourCC \in {"DXT3", "DXT5"}
    THEN LET output_channels == IF desired_channels # 0 THEN desired_channels ELSE 4
         IN  DecodeBlocks(file.width, file.height, output_channels, 16, 16,
                          decompress_dxt5_block(file.width))
    ELSE NotDecoded

\* the bytes of the file after its header
DataLength(file) ==
    file.len - (IF file.magic = "DDS " THEN DDSHeaderSize ELSE BioHeaderSize)

\* header widths and heights
ImageSizes == {1, 2, 4, 5, MaxImageSize}

\* the compressed data of a well-formed file
CompressedSize(width, height, blockSize) ==
    ((width + 3) \div 4) * ((height + 3) \div 4) * blockSize

\* Bioware files (no magic number; 3 channels are DXT1, 4 are DXT5) and
\* standard files (magic number and a fourCC), with no data after the header,
\* with 16 bytes of it, and with all of it
DDSFiles ==
    {[magic |-> "", channels |-> channels, fourCC |-> "", width |-> width,
      height |-> height, len |-> BioHeaderSize + data] :
         channels \in {3, 4}, width \in ImageSizes, height \in ImageSizes,
         data \in {0, 16, CompressedSize(MaxImageSize, MaxImageSize, 16)}}
    \cup
    {[magic |-> "DDS ", channels |-> 0, fourCC |-> fourCC, width |-> width,
      height |-> height, len |-> DDSHeaderSize + data] :
         fourCC \in {"DXT1", "DXT3", "DXT5", "DX10"},
         width \in ImageSizes, height \in ImageSizes,
         data \in {0, 16, CompressedSize(MaxImageSize, MaxImageSize, 16)}}

DDSInputs ==
    [function : {"stbi_load_dds_from_memory"}, file : DDSFiles,
     desired_channels : {0, 3, 4}, applied : {FALSE}, result : {NotDecoded}]

\* loadTexture decodes a .dds file
ApplyDDS ==
    /\ probe.function = "stbi_load_dds_from_memory"
    /\ ~probe.applied
    /\ probe' = [probe EXCEPT
                    !.applied = TRUE,
                    !.result = stbi_load_dds_from_memory(probe.file,
                                                         probe.desired_channels)]
    /\ UNCHANGED <<editorVars, simVars, textureVars, toastVars>>

InitFunctions ==
    /\ InitEditor
    /\ simEmitter = SimEmitter("Fountain", 2, (3 * TicksPerSecond) \div 2)
    /\ simState = ParticleSystemState
    /\ simOut = NoOutput
    /\ probe \in MovementInputs \cup PickInputs \cup ScaleInputs \cup TrackInputs
                \cup LoadInputs \cup SaveInputs \cup RemoveInputs \cup DDSInputs
    /\ InitTextures
    /\ InitToasts

NextFunctions ==
    \/ ApplyMovement
    \/ ApplyPick
    \/ ApplyScale
    \/ ApplyTrack
    \/ ApplyLoad
    \/ ApplySaveAndLoad
    \/ ApplyRemove
    \/ ApplyDDS

SpecFunctions == InitFunctions /\ [][NextFunctions]_vars

(***************************************************************************)
(* The gesture state machine.                                              *)
(***************************************************************************)
Gestures == {"grab", "scale", "rotate"}

Idle == ActiveGestures = {}

\* the target index of a gesture
Target(g) ==
    CASE g = "grab" -> g_grabbedEmitter
      [] g = "scale" -> g_scaledEmitter
      [] g = "rotate" -> g_rotatedEmitter

\* the names of the emitters, in list order
EmitterNames(ems) == [i \in 1..Len(ems) |-> ems[i].name]

\* C1: in every reachable state at most one of the grab, scale and rotate
\* modes differs from None
C1_AtMostOneGesture == Cardinality(ActiveGestures) <= 1

\* C2: in a step that begins with a gesture active, no command takes effect:
\* the emitter list keeps its members, and the selection, the current file
\* path and the file on disk are unchanged
C2_CommandsSuppressed ==
    [][~Idle =>
          /\ EmitterNames(emitters') = EmitterNames(emitters)
          /\ selectedEmitter' = selectedEmitter
          /\ currentFilePath' = currentFilePath
          /\ savedFile' = savedFile]_vars

\* C3: a frame without a mouse click that consumes the cancel key while only
\* a grab is active, on a valid target, leaves that emitter's position equal
\* to the snapshot and the state machine Idle
C3_CancelKeyRestoresAndIdles ==
    [][(/\ ActiveGestures = {"grab"}
        /\ g_grabbedEmitter >= 0 /\ g_grabbedEmitter < Len(emitters)
        /\ "g_esc_pressed" \in g_pressed
        /\ "g_esc_pressed" \notin g_pressed'
        /\ events' = events)
       => (/\ Idle'
           /\ g_grabbedEmitter < Len(emitters')
           /\ emitters'[g_grabbedEmitter + 1].position = g_grabStartPosition)]_vars

\* C4: a gesture that is active before a step and not after it has received,
\* while it was active, a left click, a right click or a press of the cancel key
C4_EndedOnlyByExplicitInput ==
    [][\A g \in Gestures :
          (g \in ActiveGestures /\ g \notin ActiveGestures') => g \in cancelInput']_vars

\* C5: no gesture stays active on a target index whose emitter has been removed
\* from the list
C5_RemovedTargetCancels ==
    \A g \in Gestures : (g \in ActiveGestures /\ Target(g) >= 0) => Target(g) < Len(emitters)

SelectedValid == selectedEmitter >= 0 /\ selectedEmitter < Len(emitters)

\* C6: no emitter and no particle store is ever accessed outside its vector,
\* and while the selected index is out of range no gesture starts
C6_IndexesChecked ==
    /\ [](~outOfRange)
    /\ [][~SelectedValid => ActiveGestures' \subseteq ActiveGestures]_vars

\* a frame has drawn the viewport, hovered, while a gesture was active whose
\* target index is outside the emitter list
C6_Witness ==
    /\ rendered /\ g_viewportHovered
    /\ \E g \in Gestures : g \in ActiveGestures /\ Target(g) >= Len(emitters)

\* C7: a frame that consumes the grab key when Idle starts a free grab of the
\* selected emitter if the viewport is hovered and the selection is valid,
\* recording the emitter's position and the frame's mouse position (with the
\* viewport hovered the emitter then stays where it is); a click on the
\* viewport in the same frame confirms that grab at once.  Otherwise the press
\* is discarded and the state stays Idle
C7_GrabStart ==
    [][(Idle /\ "g_g_pressed" \in g_pressed /\ "g_g_pressed" \notin g_pressed')
       => IF g_viewportHovered /\ SelectedValid
          THEN /\ g_grabStartPosition' = emitters[selectedEmitter + 1].position
               /\ g_grabStartMouse' \in MousePositions
               /\ \/ /\ g_grabMode' = "Free"
                     /\ g_grabbedEmitter' = selectedEmitter
                     /\ (events' = events /\ g_viewportHovered') =>
                            emitters'[selectedEmitter + 1].position =
                                emitters[selectedEmitter + 1].position
                  \/ /\ events' > events
                     /\ g_grabMode' = "None"
          ELSE /\ Idle'
               /\ UNCHANGED <<g_grabbedEmitter, g_grabStartPosition, g_grabStartMouse>>]_vars

\* a free grab of the selected emitter has started away from the origin of
\* the mouse and of the world
C7_Witness ==
    /\ g_grabMode = "Free"
    /\ g_grabbedEmitter = selectedEmitter
    /\ g_grabStartMouse # <<0, 0>>
    /\ g_grabStartPosition # <<0, 0, 0>>

AxisFlags == {"g_x_pressed", "g_y_pressed", "g_z_pressed"}

\* the axis the blocks leave selected: they test X, then Y, then Z
LastAxis(pressed) ==
    IF "g_z_pressed" \in pressed THEN "Z"
    ELSE IF "g_y_pressed" \in pressed THEN "Y" ELSE "X"

AxisMode(axis) == CASE axis = "X" -> "X_Axis" [] axis = "Y" -> "Y_Axis" [] axis = "Z" -> "Z_Axis"

PlaneMode(axis) ==
    CASE axis = "X" -> "YZ_Plane" [] axis = "Y" -> "XZ_Plane" [] axis = "Z" -> "XY_Plane"

\* C8: a frame without a mouse click and without a pending cancel key that
\* consumes X, Y or Z while a grab (a rotation) is the active gesture leaves
\* the gesture active in the submode of that axis -- for a grab with the
\* modifier held, the plane that excludes the axis -- and leaves the target
\* index, the value snapshot and the start mouse position unchanged
C8_AxisKeysChangeOnlySubmode ==
    [][(/\ g_pressed \cap AxisFlags # {}
        /\ g_pressed' \cap AxisFlags = {}
        /\ "g_esc_pressed" \notin g_pressed
        /\ events' = events)
       => /\ ActiveGestures = {"grab"} =>
                /\ g_grabMode' = IF g_shiftPressed THEN PlaneMode(LastAxis(g_pressed))
                                 ELSE AxisMode(LastAxis(g_pressed))
                /\ UNCHANGED <<g_grabbedEmitter, g_grabStartPosition, g_grabStartMouse>>
          /\ ActiveGestures = {"rotate"} =>
                /\ g_rotationMode' = AxisMode(LastAxis(g_pressed))
                /\ UNCHANGED <<g_rotatedEmitter, g_rotationStartRotation,
                               g_rotationStartMouse>>]_vars

\* a grab that started away from the mouse origin is constrained to a plane
C8_Witness ==
    /\ g_grabMode = "YZ_Plane"
    /\ g_grabbedEmitter = 0
    /\ g_grabStartMouse # <<0, 0>>

\* C9 as stated: in every reachable state there are as many stores as emitters
C9_StoresMatchAlways == Len(emitterStates) = Len(emitters)

\* C9: after every frame that renders the preview there are as many stores as
\* emitters
C9_StoresMatchAfterRender == rendered => Len(emitterStates) = Len(emitters)

\* a render has grown the stores to a list of two emitters
C9_Witness == rendered /\ Len(emitters) = 2 /\ Len(emitterStates) = 2

\* the pool can take a particle: a slot is inactive or the pool can grow
HasCapacity(state) ==
    \/ \E i \in 1..Len(state.particles) : ~state.particles[i].active
    \/ Len(state.particles) < state.maxParticles

\* C10: an advance of a Fountain emitter stops spawning only when the
\* accumulator is below 1/birthRate or the pool is at its maximum size with no
\* inactive slot
C10_SpawnsWhileCapacity ==
    (simEmitter.update = "Fountain" /\ simEmitter.birthrate > 0) =>
        ~(simState.lastSpawnTime >= SpawnInterval(simEmitter) /\ HasCapacity(simState))

(***************************************************************************)
(* The particle store.                                                     *)
(***************************************************************************)
\* the emitter of the store spawns
Spawning == simEmitter.update = "Fountain" /\ simEmitter.birthrate > 0

\* the time the frame that is being taken advances the store by
StepTime == simState'.animationTime - simState.animationTime

ActiveSlots(state) == {i \in 1..Len(state.particles) : state.particles[i].active}

\* the pool is full: it is at its maximum size and every slot is active
FullPool(state) ==
    Len(state.particles) = state.maxParticles /\ ActiveSlots(state) = 1..Len(state.particles)

\* C11: a spawn that was due while the pool was full is dropped, not queued:
\* a later advance spawns no more than the time since then accounts for,
\* that is the part of the accumulator below one interval plus its own time
C11_DroppedSpawnNotQueued ==
    [][(Spawning /\ FullPool(simState)
            /\ simState.lastSpawnTime >= SpawnInterval(simEmitter))
        => simState'.spawned - simState.spawned
               <= ((simState.lastSpawnTime % SpawnInterval(simEmitter)) + StepTime)
                      \div SpawnInterval(simEmitter)]_vars

\* a frame was taken from a store that had dropped spawns, and it freed a slot
C11_Witness ==
    /\ Spawning
    /\ simOut.deltaTime > 0
    /\ simState.lastSpawnTime - simOut.deltaTime >= SpawnInterval(simEmitter)
    /\ Len(simState.particles) = simState.maxParticles
    /\ ActiveSlots(simState) # 1..Len(simState.particles)

\* C12: the store never has more slots than maxParticles, and with
\* maxParticles = 1 an advance in which two spawns are due leaves exactly one
\* active particle
C12_CeilingAndOneActive ==
    /\ [](Len(simState.particles) <= simState.maxParticles)
    /\ [][(Spawning /\ simEmitter.lifeExp > 0 /\ simState.maxParticles = 1
               /\ simState.lastSpawnTime + StepTime >= 2 * SpawnInterval(simEmitter))
           => Cardinality(ActiveSlots(simState')) = 1]_vars

\* C13: while the pool has never been at its maximum size, the particles
\* spawned in a time T at birth rate B number floor(B*T) or floor(B*T)+1
C13_SpawnRateFidelity ==
    (Spawning /\ Len(simState.particles) < simState.maxParticles)
        => LET expected == (simEmitter.birthrate * simState.animationTime)
                               \div TicksPerSecond
           IN  simState.spawned \in {expected, expected + 1}

\* the emitter of the scenario: birthRate 2 and lifeExp 1.5 s
ScenarioEmitter ==
    Spawning /\ simEmitter.birthrate = 2 /\ 2 * simEmitter.lifeExp = 3 * TicksPerSecond

\* C14: the scenario emitter, advanced once by one second from an empty store
\* with a zero accumulator and room for more than two particles, gets exactly
\* two particles, each with life in (0.5 s, 1.5 s]
C14_TwoSpawnedInOneSecond ==
    [][(ScenarioEmitter /\ simState.particles = <<>> /\ simState.lastSpawnTime = 0
            /\ simState.maxParticles > 2 /\ StepTime = TicksPerSecond)
        => /\ simState'.spawned = simState.spawned + 2
           /\ Len(simState'.particles) = 2
           /\ \A i \in 1..2 :
                  /\ simState'.particles[i].active
                  /\ 2 * simState'.particles[i].life > TicksPerSecond
                  /\ 2 * simState'.particles[i].life <= 3 * TicksPerSecond]_vars

C14_Witness ==
    /\ ScenarioEmitter
    /\ simState.maxParticles > 2
    /\ simState.animationTime = TicksPerSecond
    /\ simOut.deltaTime = TicksPerSecond
    /\ simState.spawned = 2
    /\ Len(simState.particles) = 2

\* C15: whenever the store is rendered or counted, an active particle has
\* 0 <= life <= maxLife and a particle with life <= 0 is inactive
C15_LifeWithinBounds ==
    \A i \in 1..Len(simState.particles) :
        LET particle == simState.particles[i]
        IN  /\ particle.active => (0 <= particle.life /\ particle.life <= particle.maxLife)
            /\ particle.life <= 0 => ~particle.active

\* the vertices of the batch that slot i contributes: those after the quads of
\* the active slots before it
VerticesOfSlot(state, vertexData, i) ==
    LET first == 6 * Cardinality({j \in ActiveSlots(state) : j < i})
    IN  [k \in 1..6 |-> vertexData[first + k]]

\* the batch has the six vertices of every active particle and nothing else
BatchMatches(state, vertexData) ==
    /\ Len(vertexData) = 6 * Cardinality(ActiveSlots(state))
    /\ \A i \in ActiveSlots(state) : \A k \in 1..6 :
           LET vertex == VerticesOfSlot(state, vertexData, i)[k]
               particle == state.particles[i]
           IN  /\ vertex.position = particle.position
               /\ vertex.color = particle.color
               /\ vertex.size = particle.size
               /\ vertex.velocity = particle.velocity
               /\ vertex.age = particle.maxLife - particle.life

\* C16: a particle whose life drops to <= 0 in an advance is marked inactive
\* and keeps its position, velocity, colour, size and rotation, and the batch
\* of the frame holds the quads of the active particles only; its slot is
\* active afterwards only if the same advance spawned a new particle into it
C16_ExpiredParticleSkipped ==
    [][\A i \in ActiveSlots(simState) :
           simState.particles[i].life - StepTime <= 0
           => LET old == simState.particles[i]
                  new == simState'.particles[i]
              IN  /\ Len(simOut'.vertexData) = 6 * Cardinality(ActiveSlots(simState'))
                  /\ \/ /\ ~new.active
                        /\ new.position = old.position
                        /\ new.velocity = old.velocity
                        /\ new.color = old.color
                        /\ new.size = old.size
                        /\ new.rotation = old.rotation
                     \/ /\ simState'.spawned > simState.spawned
                        /\ \E rng \in {0, 1} : new = InitialParticle(simEmitter, rng)]_vars

\* a particle that had moved expired in the last frame and left the batch
C16_Witness ==
    /\ simOut.deltaTime > 0
    /\ \E i \in 1..Len(simState.particles) :
           LET particle == simState.particles[i]
           IN  /\ ~particle.active
               /\ particle.life <= 0
               /\ particle.life + simOut.deltaTime > 0
               /\ particle.position > 0
    /\ ActiveSlots(simState) # {}
    /\ Len(simOut.vertexData) = 6 * Cardinality(ActiveSlots(simState))

\* C17: in the calls of one render, every updateParticles comes before every
\* renderParticles
C17_AdvancedBeforeRendered ==
    \A j \in 1..Len(renderLog), k \in 1..Len(renderLog) :
        (renderLog[j][1] = "renderParticles" /\ renderLog[k][1] = "updateParticles")
            => k < j

\* C18: renderParticles leaves the store as updateParticles left it, and the
\* batch holds exactly six vertices for each active particle, with its
\* position, colour, size, velocity and age = maxLife - life
C18_BatchOfActiveParticles ==
    /\ [](BatchMatches(simState, simOut.vertexData))
    /\ [][simState' = updateParticles(simEmitter, simState, simOut'.deltaTime)]_vars

\* a batch built from a store with an aged active particle and an inactive one
C18_Witness ==
    /\ Len(simOut.vertexData) = 6
    /\ Len(simState.particles) = 2
    /\ \E i \in 1..2 : simState.particles[i].active /\ simOut.vertexData[1].age > 0
    /\ \E i \in 1..2 : ~simState.particles[i].active

(***************************************************************************)
(* Picking and the transform-constraint math.                              *)
(***************************************************************************)
\* every distance at which the ray enters a volume of the emitter: its node
\* sphere and, with a spread cone, each of the ten sample spheres of the cone
HitsOf(ray, emitter) ==
    LET node == rayIntersectsSphere(ray, emitter.position, nodeRadius(emitter))
        samples == IF emitter.velocity > 0 /\ emitter.spread > 0
                   THEN {ConeSample(emitter.position, <<0, 0, 1>>, 200,
                                    SinHalfSpread(emitter.spread), i) : i \in 1..10}
                   ELSE {}
        cone == {rayIntersectsSphere(ray, sample.point, sample.radius) :
                    sample \in {x \in samples : x.radius > 10}}
    IN  {h.distance : h \in {x \in {node} \cup cone : x.hit}}

\* C19: picking returns the emitter that has the smallest distance among all
\* hits of all emitters, and with no hit it returns no index and leaves the
\* selection as it was
C19_PicksNearestHit ==
    (probe.function = "pickEmitter" /\ probe.applied)
        => LET hits(i) == HitsOf(createRayFromMouse, probe.emitters[i + 1])
               indexes == 0..(Len(probe.emitters) - 1)
           IN  IF \A i \in indexes : hits(i) = {}
               THEN probe.result = -1 /\ probe.selectedAfter = probe.selectedEmitter
               ELSE /\ probe.result \in indexes
                    /\ \E d \in hits(probe.result) :
                           \A i \in indexes : \A e \in hits(i) : d <= e

\* C20: in a single-axis mode the movement is zero on the two other world
\* axes, and in a plane mode it is the Free movement with the component of
\* the excluded axis set to zero
C20_MovementRespectsConstraint ==
    (probe.function = "mouseToCameraRelativeMovement" /\ probe.applied)
        => LET free == mouseToCameraRelativeMovement(probe.camera, probe.dx, probe.dy, "Free")
               result == probe.result
           IN  /\ probe.grabMode = "X_Axis" => (result[2] = 0 /\ result[3] = 0)
               /\ probe.grabMode = "Y_Axis" => (result[1] = 0 /\ result[3] = 0)
               /\ probe.grabMode = "Z_Axis" => (result[1] = 0 /\ result[2] = 0)
               /\ probe.grabMode = "YZ_Plane" => result = <<0, free[2], free[3]>>
               /\ probe.grabMode = "XZ_Plane" => result = <<free[1], 0, free[3]>>
               /\ probe.grabMode = "XY_Plane" => result = <<free[1], free[2], 0>>

\* a drag along X under a camera turned about both axes, whose Free movement
\* has all three components
C20_Witness ==
    /\ probe.function = "mouseToCameraRelativeMovement"
    /\ probe.applied
    /\ probe.grabMode = "X_Axis"
    /\ probe.result[1] # 0
    /\ \A k \in 1..3 :
           mouseToCameraRelativeMovement(probe.camera, probe.dx, probe.dy, "Free")[k] # 0

\* C21: in Uniform mode mouseToScale returns start size x (1 - dy * 0.01)
\* with each axis clamped on its own to [0, 500]; start size (1, 1) and
\* dy = -10 give (1.1, 1.1)
C21_UniformScaleClamped ==
    (probe.function = "mouseToScale" /\ probe.applied /\ probe.scaleMode = "Uniform")
        => /\ \A k \in 1..2 :
                  LET scaled == (probe.startSize[k] * (100 - probe.dy)) \div 100
                  IN  probe.result[k] = IF scaled < 0 THEN 0
                                        ELSE IF scaled > 5000 THEN 5000
                                        ELSE scaled
           /\ (probe.startSize = <<10, 10>> /\ probe.dy = -10) => probe.result = <<11, 11>>

\* the scenario has been computed, and so has a size with one axis clamped
C21_Witness ==
    /\ probe.function = "mouseToScale"
    /\ probe.applied
    /\ probe.scaleMode = "Uniform"
    /\ probe.startSize = <<10, 10>>
    /\ probe.dy = -10
    /\ probe.result = <<11, 11>>

\* C22: the value a gesture leaves in its emitter is a function of the
\* snapshot, the current submode, the camera and the mouse's offset from the
\* gesture's start only: whatever frames and submodes came before, it is the
\* snapshot combined with the conversion of one mouse offset
C22_ValueFromSnapshotAndOffset ==
    /\ (g_grabMode # "None" /\ g_viewportHovered
            /\ g_grabbedEmitter \in 0..(Len(emitters) - 1))
        => \E mouse \in MousePositions :
               emitters[g_grabbedEmitter + 1].position =
                   Vec3Add(g_grabStartPosition,
                           mouseToCameraRelativeMovement(ResetCamera,
                               mouse[1] - g_grabStartMouse[1],
                               mouse[2] - g_grabStartMouse[2], g_grabMode))
    /\ (g_grabMode = "None" /\ g_scaleMode # "None" /\ g_viewportHovered
            /\ g_scaledEmitter \in 0..(Len(emitters) - 1))
        => \E mouse \in MousePositions :
               <<emitters[g_scaledEmitter + 1].xsize, emitters[g_scaledEmitter + 1].ysize>> =
                   mouseToScale(mouse[1] - g_scaleStartMouse[1],
                                mouse[2] - g_scaleStartMouse[2],
                                g_scaleStartSize, g_scaleMode)
    /\ (g_grabMode = "None" /\ g_scaleMode = "None" /\ g_rotationMode # "None"
            /\ g_viewportHovered /\ g_rotatedEmitter \in 0..(Len(emitters) - 1))
        => \E mouse \in MousePositions :
               emitters[g_rotatedEmitter + 1].rotationAngles =
                   Vec3Add(g_rotationStartRotation,
                           mouseToRotation(mouse[1] - g_rotationStartMouse[1],
                                           mouse[2] - g_rotationStartMouse[2],
                                           g_rotationMode))

\* a grab that went from the Free submode to an axis has moved its emitter
C22_Witness ==
    /\ g_grabMode \in {"X_Axis", "Y_Axis", "Z_Axis"}
    /\ g_viewportHovered
    /\ g_grabbedEmitter \in 0..(Len(emitters) - 1)
    /\ emitters[g_grabbedEmitter + 1].position # g_grabStartPosition

\* the keyframes are in the order of their times
Ordered(keyframes) ==
    \A i \in 1..(Len(keyframes) - 1) : keyframes[i].time <= keyframes[i + 1].time

\* C23: a query of a track whose keyframes are ordered by time returns the
\* linear interpolation between the two keyframes around the time, the first
\* keyframe's value for an earlier time and the last one's for a later time;
\* keyframes (0, (0,0,0)) and (10, (10,0,0)) give (5,0,0) at 5, (0,0,0) at -1
\* and (10,0,0) at 100
C23_InterpolatesOrClamps ==
    (probe.function = "getAnimatedPosition" /\ probe.applied
        /\ probe.positionKeys # <<>> /\ Ordered(probe.positionKeys))
        => LET keyframes == probe.positionKeys
               first == keyframes[1]
               last == keyframes[Len(keyframes)]
               time == probe.time
               between(i) ==
                   IF keyframes[i + 1].time = keyframes[i].time
                   THEN {keyframes[i].value, keyframes[i + 1].value}
                   ELSE {[k \in 1..3 |->
                            keyframes[i].value[k]
                            + ((keyframes[i + 1].value[k] - keyframes[i].value[k])
                               * (time - keyframes[i].time))
                              \div (keyframes[i + 1].time - keyframes[i].time)]}
           IN  /\ ~probe.result.nan
               /\ time < first.time => probe.result.value = first.value
               /\ time > last.time => probe.result.value = last.value
               /\ (time >= first.time /\ time <= last.time /\ Len(keyframes) > 1)
                      => \E i \in 1..(Len(keyframes) - 1) :
                             /\ keyframes[i].time <= time
                             /\ time <= keyframes[i + 1].time
                             /\ probe.result.value \in between(i)
               /\ Len(keyframes) = 1 => probe.result.value = first.value
               /\ keyframes = <<AnimationKeyframe(0, <<0, 0, 0>>),
                                AnimationKeyframe(10, <<1000, 0, 0>>)>>
                      => /\ time = 5 => probe.result.value = <<500, 0, 0>>
                         /\ time = -1 => probe.result.value = <<0, 0, 0>>
                         /\ time = 100 => probe.result.value = <<1000, 0, 0>>

\* C24: the image files of a texture name are read at most once: a later
\* request for the name, whether the load found a file or not, is answered
\* from the cache with the same handle or the same no-texture 0, and reads
\* nothing
C24_LoadedAtMostOnce ==
    /\ [](\A name \in TextureNames : diskLoads[name] <= 1)
    /\ [][\A name \in DOMAIN textureCache :
              /\ name \in DOMAIN textureCache'
              /\ textureCache'[name] = textureCache[name]
              /\ diskLoads'[name] = diskLoads[name]
              /\ (lastTexture' # lastTexture /\ lastTexture'.name = name)
                     => lastTexture'.handle = textureCache[name]]_vars

\* a name whose files were not found has been asked for again after the
\* directory changed, while another name has a texture
C24_Witness ==
    /\ lastTexture.cached
    /\ lastTexture.handle = 0
    /\ diskLoads[lastTexture.name] = 1
    /\ \E name \in DOMAIN textureCache : textureCache[name] # 0 /\ diskLoads[name] = 1
    /\ textureDirectory # ""

\* the lines of a file that are read into its first emitter: those of the
\* first node, and the field of a second node of the same name
FirstEmitterLines(lines) ==
    {i \in 2..Len(lines) :
        /\ lines[i].token \notin {"node", "endnode"}
        /\ \/ \A k \in 2..i : lines[k].token # "node"
           \/ \E k \in 2..i : /\ lines[k].token = "node"
                              /\ lines[k].nodeType = "emitter"
                              /\ lines[k].name = lines[1].name}

\* the value after the token is not one of the field's type
Unparseable(line) ==
    IF line.token = "update" THEN line.text.kind = "word" /\ line.text.word \notin UpdateTypes
    ELSE line.text.kind = "word"

\* C25: in a load, a field whose value cannot be parsed keeps the default
\* value of the emitter, and the fields and emitters after it are still read
C25_UnparseableFieldKeepsDefault ==
    (probe.function = "loadFromMDL" /\ probe.applied)
        => LET lines == probe.lines
               own == FirstEmitterLines(lines)
               single(i) == \A k \in own : lines[k].token = lines[i].token => k = i
           IN  /\ Len(probe.result) >= 1
               /\ \A i \in own :
                      (single(i) /\ Unparseable(lines[i]))
                          => probe.result[1][lines[i].token] =
                                 createDefaultEmitter[lines[i].token]
               /\ \A i \in own :
                      (single(i) /\ lines[i].text.kind = "number"
                          /\ lines[i].token \in {"xgrid", "xsize"})
                          => probe.result[1][lines[i].token] = lines[i].text.value
               /\ \A i \in 2..Len(lines) :
                      (lines[i].token = "node" /\ lines[i].nodeType = "emitter")
                          => \E k \in 1..Len(probe.result) :
                                 probe.result[k].name = lines[i].name

\* C26: after any sequence of add, remove, duplicate, rename, new-document
\* and load operations every emitter has a name that is not empty, and no
\* two emitters have the same name
C26_NamesNonEmptyAndUnique ==
    /\ \A i \in 1..Len(emitters) : emitters[i].name # Name("", 0)
    /\ \A i, j \in 1..Len(emitters) : emitters[i].name = emitters[j].name => i = j

\* C27: every emitter has xgrid >= 1 and ygrid >= 1, the emitters that a load
\* of a model file produces included; here for files in which every value
\* is one of its field's type
C27_GridsAtLeastOne ==
    (probe.function = "loadFromMDL" /\ probe.applied
        /\ \A i \in 1..Len(probe.lines) : ~Unparseable(probe.lines[i]))
        => \A k \in 1..Len(probe.result) :
               probe.result[k].xgrid >= 1 /\ probe.result[k].ygrid >= 1

\* C28: the serializer writes the position and the size of the emission
\* plane of each emitter as they are: a save and a load give the same xsize,
\* ysize and position
C28_SaveLoadKeepsPlaneAndPosition ==
    (probe.function = "saveToMDL" /\ probe.applied)
        => /\ Len(probe.result) = Len(probe.emitters)
           /\ \A k \in 1..Len(probe.emitters) :
                  /\ probe.result[k].xsize = probe.emitters[k].xsize
                  /\ probe.result[k].ysize = probe.emitters[k].ysize
                  /\ probe.result[k].position = probe.emitters[k].position

\* C29: a grab or a rotation stays in the Free submode until an axis key is
\* pressed after its start: the submode leaves Free only in a frame that
\* finds an axis flag whose key press came while a gesture was active
C29_FreeUntilAxisKeyAfterStart ==
    [][/\ (g_grabMode \in {"None", "Free"} /\ g_grabMode' \notin {"None", "Free"})
           => AxisFlags \cap g_pressed \cap pressedInGesture # {}
       /\ (g_rotationMode \in {"None", "Free"} /\ g_rotationMode' \notin {"None", "Free"})
           => AxisFlags \cap g_pressed \cap pressedInGesture # {}]_vars

\* C30: after a gesture has ended the state machine stays Idle until G, S or
\* R is pressed: a gesture starts from Idle only in a frame that finds its
\* hotkey flag set by a key press that came while no gesture was active
C30_IdleUntilHotkeyAfterEnd ==
    [][/\ (Idle /\ g_grabMode' # "None")
           => "g_g_pressed" \in g_pressed \ pressedInGesture
       /\ (Idle /\ g_scaleMode' # "None")
           => "g_s_pressed" \in g_pressed \ pressedInGesture
       /\ (Idle /\ g_rotationMode' # "None")
           => "g_r_pressed" \in g_pressed \ pressedInGesture]_vars

\* C31: whenever the grab, scale or rotate mode is not None, its target is
\* the index captured at the start of the gesture, which is not negative:
\* whatever keys a frame finds pressed, no mode stays active with target -1
C31_ActiveModeHasTarget ==
    /\ g_grabMode # "None" => g_grabbedEmitter >= 0
    /\ g_scaleMode # "None" => g_scaledEmitter >= 0
    /\ g_rotationMode # "None" => g_rotatedEmitter >= 0

\* C32: from its start to its end a gesture writes only to the emitter that
\* was selected when it started: whenever a frame has let an active gesture
\* write to the emitter at its target index, that emitter is the one the
\* gesture started on, also after the emitter list has changed
C32_WritesOnlyToStartEmitter ==
    \A g \in ActiveGestures :
        (g_viewportHovered /\ Target(g) \in 0..(Len(emitters) - 1)
            /\ (g = "grab" \/ g_grabMode = "None"))
            => emitters[Target(g) + 1].name = startedOn[g]

\* C33: the particle stores stay with their emitters: after the removal of
\* an emitter that is not the last one, each remaining emitter is simulated
\* and rendered with the store it had before the removal
C33_StoresFollowEmitters ==
    (probe.function = "removeEmitter" /\ probe.applied
        /\ probe.index < Len(probe.emitters) - 1)
        => /\ Len(probe.result) = Len(probe.emitters) - 1
           /\ \A k \in 1..Len(probe.result) :
                  \E i \in 1..Len(probe.emitters) :
                      /\ probe.emitters[i].name = probe.result[k].name
                      /\ probe.emitterStates[i] = probe.result[k].state

\* C34: the vertex data uploaded for one emitter fits in the vertex buffer
\* allocated at setup: at most six vertices per particle the buffer has
\* room for
C34_VertexDataFitsBuffer ==
    Len(simOut.vertexData) <= 6 * VertexBufferParticles

\* C35: after the texture directory is changed, a request for a bare
\* texture name returns the texture resolved in the new directory, never a
\* handle or a failure cached for the name under the previous directory
C35_BareNameResolvedInCurrentDirectory ==
    (lastTexture.name # "" /\ ~isFullPath(lastTexture.name))
        => lastTexture.resolvedIn = lastTexture.requestedIn

\* C36: for every maxToasts value set through setMaxToasts, addToast
\* terminates, and afterwards at most maxToasts toasts are queued: the new
\* toast after the newest of the toasts queued before, the oldest evicted
C36_AddToastKeepsLimit ==
    toastCall.outcome # "none"
        => /\ toastCall.outcome = "returned"
           /\ Len(toastCall.after) <= toastCall.maxToasts
           /\ \E kept \in 0..Len(toastCall.before) :
                  SubSeq(toastCall.after, 1, Len(toastCall.after) - 1)
                      = SubSeq(toastCall.before, Len(toastCall.before) - kept + 1,
                               Len(toastCall.before))

\* C37: decoding a block-compressed DDS image of any header width and
\* height writes only inside the width x height x channels output buffer and
\* reads compressed blocks only inside the supplied input buffer
C37_DecodeStaysInsideBuffers ==
    (probe.function = "stbi_load_dds_from_memory" /\ probe.applied
     /\ probe.result.decoded)
        => /\ probe.result.written \subseteq 0..(probe.result.outputSize - 1)
           /\ probe.result.read \subseteq 0..(DataLength(probe.file) - 1)

====
